---- MODULE Spec2Model ----
(***************************************************************************)
(* Tray host of the clammy status bar: the SystemTray component            *)
(* (components/system_tray/tray.rs) and the StatusBar application that     *)
(* wraps it and owns the popup windows (main.rs).                          *)
(*                                                                         *)
(* Spec     the SystemTray component driven by its own subscription (the   *)
(*          protocol listener) and by the intents of its messages.         *)
(* AppSpec  the StatusBar: the same store behind StatusBar::update, plus   *)
(*          the popup maps and the messages its tasks put in flight.       *)
(* PopupSpec     the popups of the StatusBar with their animation timer.   *)
(* ListenerSpec  run_tray_client with its channels and the activation      *)
(*               handler task.                                             *)
(* IconSpec      the functions of icon.rs applied to one item, with the    *)
(*               icon cache and the files on disk.                         *)
(* MenuSpec      the functions of menu.rs applied to one menu.             *)
(* IndicatorSpec the SystemTray component with a host that also calls its  *)
(*               custom-indicator methods.                                 *)
(* PopupFairSpec PopupSpec with a timer that fires and a runtime that      *)
(*               delivers.                                                 *)
(* CacheSpec     find_icon_in_path_cached called from two threads.         *)
(* ClientSpec    run_tray_client with the protocol client's item map, its  *)
(*               mutex and its event broadcast.                            *)
(***************************************************************************)
EXTENDS Integers, Sequences, FiniteSets, Bags, TLC

VARIABLES
    system_tray,       \* SystemTray {items, custom_indicators, open_menu, activate_tx}
    windows,           \* StatusBar.windows: popup id -> WindowType
    menu_data,         \* StatusBar.menu_data: popup id -> (address, items)
    popup_animations,  \* StatusBar.popup_animations: popup id -> PopupAnimationState
    next_id,           \* the next value Id::unique() hands out
    ticks,             \* popup id -> ticks handled since it opened, Shared once
                       \* another popup has been open beside it
    pending,           \* messages that returned tasks have in flight to update
    listener,          \* position of run_tray_client
    rendered,          \* what the last view() showed: tray buttons and popup ids
    last,              \* the message the last update call handled
    last_task,         \* the Task that call returned
    open_menu_before,  \* the open-menu marker when that call started
    items_before,      \* the addresses the item map held when that call started
    windows_before,    \* the popup ids windows held when that call started
    output,            \* run_tray_client: messages in the subscription channel
    to_send,           \* run_tray_client: messages it has still to send
    owed,              \* what the listener took in and update has not seen yet
    activate_rx,       \* requests in the activation channel
    sending,           \* requests of started tasks that wait for the channel
    handler,           \* the activation handler task
    activated,         \* the calls of client.activate so far
    serial,            \* number of requests that entered the activation channel
    last_event,        \* the event rx.recv() returned last, None before the first
    sni_item,          \* icon.rs: the StatusNotifierItem handed to resolve_icon
    tray_menu,         \* menu.rs: the TrayMenu handed to convert_menu
    files,             \* the paths that exist on disk
    ICON_CACHE,        \* icon.rs: Option<HashMap<(String, String), Option<PathBuf>>>
    lib_call,          \* the last call of a function of icon.rs or menu.rs
    callers,           \* thread -> its position in find_icon_in_path_cached
    cache_lock,        \* the RwLock of ICON_CACHE: threads holding read, thread holding write
    returned,          \* the (key, result) pairs find_icon_in_path_cached has returned
    client_items,      \* the protocol client's item map: address -> (item, menu)
    items_guard,       \* who holds the mutex of that map
    rx,                \* the events broadcast since client.subscribe(), not yet received
    initial_items_data \* the snapshot entries run_tray_client has collected

vars == <<system_tray, windows, menu_data, popup_animations, next_id, ticks, pending,
          listener, rendered, last, last_task, open_menu_before, items_before,
          windows_before, output, to_send, owed, activate_rx, sending, handler,
          activated, serial, last_event, sni_item, tray_menu, files, ICON_CACHE,
          lib_call, callers, cache_lock, returned, client_items, items_guard, rx,
          initial_items_data>>

callVars == <<last, last_task, open_menu_before, items_before, windows_before>>

popupVars == <<windows, menu_data, popup_animations, next_id, ticks>>

threadVars == <<callers, cache_lock, returned>>

clientVars == <<client_items, items_guard, rx, initial_items_data>>

libVars == <<sni_item, tray_menu, files, ICON_CACHE, lib_call, threadVars, clientVars>>

chanVars == <<output, to_send, owed, activate_rx, sending, handler, activated, serial,
              last_event>>

----------------------------------------------------------------------------
(* Values *)

None == "None"                      \* Option::None
Some(x) == x                        \* Option::Some(x), x never "None"

EmptyMap == [x \in {} |-> None]     \* HashMap::new()

Insert(map, k, v) == [x \in DOMAIN map \cup {k} |-> IF x = k THEN v ELSE map[x]]
Remove(map, k) == [x \in DOMAIN map \ {k} |-> map[x]]

Addresses == {"steam", "discord"}
Titles == {None, "A", "B"}          \* Option<String>
Icons == {None, "icon"}             \* Option<image::Handle>
\* the (title, icon) pairs of the items the protocol client reports
Reported == {<<None, None>>, <<"A", "icon">>}

MenuItem(id, label, enabled, is_separator) ==
    [id |-> id, label |-> label, enabled |-> enabled, is_separator |-> is_separator,
     is_checkable |-> FALSE, is_checked |-> FALSE, submenu |-> <<>>]

QuitMenu == <<MenuItem(1, "Quit", TRUE, FALSE)>>
FullMenu == <<MenuItem(2, "Open", TRUE, FALSE), MenuItem(3, "", TRUE, TRUE),
              MenuItem(4, "Off", FALSE, FALSE), MenuItem(5, "", TRUE, FALSE)>>

Menus == {<<>>, QuitMenu}           \* Vec<MenuItem> values of the store runs
MenuIds == {1, 2}                   \* menu_id values of menu-item clicks

MaxInFlight == 1                    \* sends of the component not yet completed


----------------------------------------------------------------------------
(* tray.rs: Message *)

NoEvent == [kind |-> "None"]        \* rx.recv() has not returned yet

ItemAdded(a, t, i, m) ==
    [type |-> "ItemAdded", address |-> a, title |-> t, icon_handle |-> i, item_is_menu |-> m]
ItemUpdated(a, t, i) ==
    [type |-> "ItemUpdated", address |-> a, title |-> t, icon_handle |-> i]
MenuUpdated(a, items) == [type |-> "MenuUpdated", address |-> a, menu_items |-> items]
ItemRemoved(a) == [type |-> "ItemRemoved", address |-> a]
ItemClicked(a) == [type |-> "ItemClicked", address |-> a]
ItemRightClicked(a) == [type |-> "ItemRightClicked", address |-> a]
MenuItemClicked(a, id) == [type |-> "MenuItemClicked", address |-> a, menu_id |-> id]
CloseMenu == [type |-> "CloseMenu"]
ActivationComplete == [type |-> "ActivationComplete"]
ActivateChannelReady == [type |-> "ActivateChannelReady", tx |-> "activate_tx"]

(* system_tray::client::ActivateRequest *)
DefaultRequest(a) == [kind |-> "Default", address |-> a, x |-> 0, y |-> 0]
MenuItemRequest(a, id) ==
    [kind |-> "MenuItem", address |-> a, menu_path |-> "/MenuBar", submenu_id |-> id]

(* Task<Message>: the sequence of the units of work it holds *)
TaskNone == <<>>
TaskDone(msg) == <<[kind |-> "done", msg |-> msg]>>
TaskPerformSend(request, msg) == <<[kind |-> "send", request |-> request, msg |-> msg]>>
TaskBatch(t1, t2) == t1 \o t2

Requests(task) == SelectSeq(task, LAMBDA u : u.kind = "send")
\* the bag of the messages a task hands back to update when its units finish
Messages(task) ==
    LET back == SelectSeq(task, LAMBDA u : u.msg.type \notin {"NewMenu", "RemoveWindow"})
    IN  [m \in {back[k].msg : k \in DOMAIN back} |->
            Cardinality({k \in DOMAIN back : back[k].msg = m})]
\* the messages in flight once update took message m and returned task
Spawned(inflight, m, task) ==
    (IF BagIn(m, inflight) THEN inflight (-) SetToBag({m}) ELSE inflight) (+) Messages(task)

----------------------------------------------------------------------------
(* tray.rs: SystemTray *)

SystemTrayDefault ==
    [items |-> EmptyMap, custom_indicators |-> <<>>, open_menu |-> None,
     activate_tx |-> None]

add_custom_indicator_front(self, indicator) ==
    [self EXCEPT !.custom_indicators = <<indicator>> \o @]

add_custom_indicator(self, indicator) ==
    [self EXCEPT !.custom_indicators = Append(@, indicator)]

remove_custom_indicator(self, id) ==
    [self EXCEPT !.custom_indicators = SelectSeq(@, LAMBDA i : i.id # id)]

\* Option<Vec<MenuItem>>: the set of the at most one list it holds
get_menu_items(self, address) ==
    IF address \in DOMAIN self.items THEN {self.items[address].menu_items} ELSE {}

has_menu(self, address) ==
    IF address \in DOMAIN self.items
    THEN self.items[address].menu_items # <<>> \/ self.items[address].item_is_menu
    ELSE FALSE

(* The arms of SystemTray::update: each gives the new store and the Task. *)
Result(self, task) == [self |-> self, task |-> task]

update_ActivateChannelReady(self, m) ==
    Result([self EXCEPT !.activate_tx = Some(m.tx)], TaskNone)

\* slip: an address the map already holds keeps its entry
update_ItemAdded_keep_first(self, m) ==
    IF m.address \in DOMAIN self.items
    THEN Result(self, TaskNone)
    ELSE Result([self EXCEPT !.items = Insert(@, m.address,
                    [address |-> m.address, title |-> m.title,
                     icon_handle |-> m.icon_handle,
                     menu_items |-> <<>>, item_is_menu |-> m.item_is_menu])],
                TaskNone)

update_ItemAdded(self, m) ==
    Result([self EXCEPT !.items = Insert(@, m.address,
                [address |-> m.address, title |-> m.title, icon_handle |-> m.icon_handle,
                 menu_items |-> <<>>, item_is_menu |-> m.item_is_menu])],
           TaskNone)

\* slip: the event's fields are stored as they come, absent ones included
update_ItemUpdated_replace(self, m) ==
    IF m.address \in DOMAIN self.items
    THEN Result([self EXCEPT !.items[m.address].title = m.title,
                             !.items[m.address].icon_handle = m.icon_handle],
                TaskNone)
    ELSE Result(self, TaskNone)

update_ItemUpdated(self, m) ==
    IF m.address \in DOMAIN self.items
    THEN Result([self EXCEPT
                    !.items[m.address].title = IF m.title # None THEN m.title ELSE @,
                    !.items[m.address].icon_handle =
                        IF m.icon_handle # None THEN m.icon_handle ELSE @],
                TaskNone)
    ELSE Result(self, TaskNone)

\* slip: an update for an unknown address creates the entry
update_MenuUpdated_upsert(self, m) ==
    IF m.address \in DOMAIN self.items
    THEN Result([self EXCEPT !.items[m.address].menu_items = m.menu_items], TaskNone)
    ELSE Result([self EXCEPT !.items = Insert(@, m.address,
                    [address |-> m.address, title |-> None, icon_handle |-> None,
                     menu_items |-> m.menu_items, item_is_menu |-> FALSE])],
                TaskNone)

update_MenuUpdated(self, m) ==
    IF m.address \in DOMAIN self.items
    THEN Result([self EXCEPT !.items[m.address].menu_items = m.menu_items], TaskNone)
    ELSE Result(self, TaskNone)

\* slip: the marker is left pointing at the removed address
update_ItemRemoved_keeps_marker(self, m) ==
    Result([self EXCEPT !.items = Remove(@, m.address)], TaskNone)

update_ItemRemoved(self, m) ==
    Result([self EXCEPT !.items = Remove(@, m.address),
                        !.open_menu = IF @ = Some(m.address) THEN None ELSE @],
           TaskNone)

\* slip: the store itself holds back the activation of an item that has a menu
update_ItemClicked_menu_aware(self, m) ==
    IF self.activate_tx # None /\ ~has_menu(self, m.address)
    THEN Result(self, TaskPerformSend(DefaultRequest(m.address), ActivationComplete))
    ELSE Result(self, TaskNone)

update_ItemClicked(self, m) ==
    IF self.activate_tx # None
    THEN Result(self, TaskPerformSend(DefaultRequest(m.address), ActivationComplete))
    ELSE Result(self, TaskNone)

\* slip: a right-click always opens, it never closes
update_ItemRightClicked_open_only(self, m) ==
    Result([self EXCEPT !.open_menu = Some(m.address)], TaskNone)

update_ItemRightClicked(self, m) ==
    Result([self EXCEPT !.open_menu = IF @ = Some(m.address) THEN None ELSE Some(m.address)],
           TaskNone)

\* slip: the marker is cleared only when it names the clicked item's address
update_MenuItemClicked_own_marker(self, m) ==
    LET closed == [self EXCEPT !.open_menu = IF @ = Some(m.address) THEN None ELSE @]
    IN  IF self.activate_tx # None
        THEN Result(closed, TaskPerformSend(MenuItemRequest(m.address, m.menu_id),
                                            ActivationComplete))
        ELSE Result(closed, TaskNone)

update_MenuItemClicked(self, m) ==
    LET closed == [self EXCEPT !.open_menu = None]
    IN  IF self.activate_tx # None
        THEN Result(closed, TaskPerformSend(MenuItemRequest(m.address, m.menu_id),
                                            ActivationComplete))
        ELSE Result(closed, TaskNone)

update_CloseMenu(self, m) == Result([self EXCEPT !.open_menu = None], TaskNone)

update_ActivationComplete(self, m) == Result(self, TaskNone)

SystemTray_update(self, m) ==
    CASE m.type = "ActivateChannelReady" -> update_ActivateChannelReady(self, m)
      [] m.type = "ItemAdded" -> update_ItemAdded(self, m)
      [] m.type = "ItemUpdated" -> update_ItemUpdated(self, m)
      [] m.type = "MenuUpdated" -> update_MenuUpdated(self, m)
      [] m.type = "ItemRemoved" -> update_ItemRemoved(self, m)
      [] m.type = "ItemClicked" -> update_ItemClicked(self, m)
      [] m.type = "ItemRightClicked" -> update_ItemRightClicked(self, m)
      [] m.type = "MenuItemClicked" -> update_MenuItemClicked(self, m)
      [] m.type = "CloseMenu" -> update_CloseMenu(self, m)
      [] m.type = "ActivationComplete" -> update_ActivationComplete(self, m)

----------------------------------------------------------------------------
(* The SystemTray component on its own *)

\* the state of the tray host after construction
HostInit ==
    /\ system_tray = SystemTrayDefault
    /\ windows = EmptyMap
    /\ menu_data = EmptyMap
    /\ popup_animations = EmptyMap
    /\ next_id = 1
    /\ ticks = EmptyMap
    /\ pending = EmptyBag
    /\ listener = "connect"
    /\ rendered = [items |-> {}, popups |-> EmptyMap]
    /\ last = [type |-> "new"]
    /\ last_task = TaskNone
    /\ open_menu_before = None
    /\ items_before = {}
    /\ windows_before = {}
    /\ output = <<>>
    /\ to_send = <<>>
    /\ owed = <<>>
    /\ activate_rx = <<>>
    /\ sending = EmptyBag
    /\ handler = "unspawned"
    /\ activated = <<>>
    /\ serial = 0
    /\ last_event = NoEvent

Threads == {"t1", "t2"}             \* the threads that call into icon.rs

\* a thread outside find_icon_in_path_cached
IdleCaller == [pc |-> "idle", key |-> <<>>, result |-> {}, seen |-> {}]

\* RwLock::new: nobody holds the lock
Unlocked == [readers |-> {}, writer |-> {}]

ThreadsIdle ==
    /\ callers = [t \in Threads |-> IdleCaller]
    /\ cache_lock = Unlocked
    /\ returned = {}

\* the protocol client knows no item, nobody holds its mutex, nothing is subscribed
ClientIdle ==
    /\ client_items = EmptyMap
    /\ items_guard = {}
    /\ rx = <<>>
    /\ initial_items_data = <<>>

\* no function of icon.rs or menu.rs has been called; the cache is the static's
\* initial None
LibIdle ==
    /\ sni_item = [icon_pixmap |-> {}, icon_name |-> {}, icon_theme_path |-> {}]
    /\ tray_menu = [submenus |-> <<>>]
    /\ files = {}
    /\ ICON_CACHE = {}
    /\ lib_call = [fn |-> "none"]
    /\ ThreadsIdle
    /\ ClientIdle

Init == HostInit /\ LibIdle

(* One call of SystemTray::update by the runtime: the task it returns is spawned,
   and the messages that task will produce are in flight from then on. *)
Handled(m) ==
    LET r == SystemTray_update(system_tray, m)
    IN  /\ system_tray' = r.self
        /\ last' = m
        /\ last_task' = r.task
        /\ open_menu_before' = system_tray.open_menu
        /\ items_before' = DOMAIN system_tray.items
        /\ windows_before' = DOMAIN windows
        /\ UNCHANGED libVars

Apply(m) ==
    /\ Handled(m)
    /\ pending' = Spawned(pending, m, last_task')
    /\ UNCHANGED <<popupVars, chanVars>>

(* run_tray_client: Client::new() failed *)
ListenerConnectFailed ==
    /\ listener = "connect"
    /\ listener' = "parked"
    /\ UNCHANGED <<system_tray, popupVars, pending, rendered, callVars, libVars, chanVars>>

(* run_tray_client: the activation channel is created and its sender handed over *)
ListenerHandoff ==
    /\ listener = "connect"
    /\ listener' = "running"
    /\ Apply(ActivateChannelReady)
    /\ UNCHANGED rendered

(* run_tray_client: a snapshot entry or an Event::Add is forwarded *)
ListenerAdd(a, t, i, m) ==
    /\ listener = "running"
    /\ Apply(ItemAdded(a, t, i, m))
    /\ UNCHANGED <<listener, rendered>>

(* run_tray_client: a snapshot menu or an UpdateEvent::Menu is forwarded *)
ListenerMenu(a, items) ==
    /\ listener = "running"
    /\ Apply(MenuUpdated(a, items))
    /\ UNCHANGED <<listener, rendered>>

(* run_tray_client: an UpdateEvent::Title is forwarded, never with an icon *)
ListenerTitle(a, t) ==
    /\ listener = "running"
    /\ Apply(ItemUpdated(a, t, None))
    /\ UNCHANGED <<listener, rendered>>

(* run_tray_client: any other UpdateEvent is skipped *)
ListenerOtherUpdate(a) ==
    /\ listener = "running"
    /\ UNCHANGED vars

(* run_tray_client: an Event::Remove is forwarded *)
ListenerRemove(a) ==
    /\ listener = "running"
    /\ Apply(ItemRemoved(a))
    /\ UNCHANGED <<listener, rendered>>

(* SystemTray::view: one button per item of the map *)
View ==
    /\ rendered' = [rendered EXCEPT !.items = DOMAIN system_tray.items]
    /\ UNCHANGED <<system_tray, popupVars, pending, listener, callVars, libVars, chanVars>>

(* the button of a rendered item is pressed *)
LeftClick(a) ==
    /\ a \in rendered.items
    /\ BagCardinality(pending) < MaxInFlight
    /\ Apply(ItemClicked(a))
    /\ UNCHANGED <<listener, rendered>>

RightClick(a) ==
    /\ a \in rendered.items
    /\ Apply(ItemRightClicked(a))
    /\ UNCHANGED <<listener, rendered>>

MenuItemClick(a, id) ==
    /\ a \in rendered.items
    /\ BagCardinality(pending) < MaxInFlight
    /\ Apply(MenuItemClicked(a, id))
    /\ UNCHANGED <<listener, rendered>>

CloseMenuRequest ==
    /\ rendered.items # {}
    /\ Apply(CloseMenu)
    /\ UNCHANGED <<listener, rendered>>

(* a spawned send has finished: its ActivationComplete reaches update *)
Completion ==
    /\ BagIn(ActivationComplete, pending)
    /\ Apply(ActivationComplete)
    /\ UNCHANGED <<listener, rendered>>

Next ==
    \/ ListenerConnectFailed
    \/ ListenerHandoff
    \/ \E a \in Addresses, r \in Reported, m \in BOOLEAN : ListenerAdd(a, r[1], r[2], m)
    \/ \E a \in Addresses, items \in Menus : ListenerMenu(a, items)
    \/ \E a \in Addresses, t \in Titles : ListenerTitle(a, t)
    \/ \E a \in Addresses : ListenerOtherUpdate(a)
    \/ \E a \in Addresses : ListenerRemove(a)
    \/ View
    \/ \E a \in Addresses : LeftClick(a)
    \/ \E a \in Addresses : RightClick(a)
    \/ \E a \in Addresses, id \in MenuIds : MenuItemClick(a, id)
    \/ CloseMenuRequest
    \/ Completion

Spec == Init /\ [][Next]_vars

----------------------------------------------------------------------------
(* The SystemTray component with a host that also uses its custom-indicator API *)

AppAddresses == {"steam"}           \* addresses of the application runs
MaxIndicators == 2                  \* longest custom-indicator list explored

CustomIndicator(id, icon, tooltip) == [id |-> id, icon |-> icon, tooltip |-> tooltip]
IndicatorIds == {"net", "vol"}
Indicators == {CustomIndicator(id, "handle", t) : id \in IndicatorIds, t \in {"up", "down"}}

\* a call of one of the two methods, as the history variable records it
IndicatorCall(fn, arg) == [type |-> fn, arg |-> arg]

(* the host calls SystemTray::add_custom_indicator *)
AddCustomIndicator(indicator) ==
    /\ Len(system_tray.custom_indicators) < MaxIndicators
    /\ system_tray' = add_custom_indicator(system_tray, indicator)
    /\ last' = IndicatorCall("add_custom_indicator", indicator)
    /\ UNCHANGED <<popupVars, pending, listener, rendered, last_task, open_menu_before,
                   items_before, windows_before, chanVars, libVars>>

(* the host calls SystemTray::remove_custom_indicator *)
RemoveCustomIndicator(id) ==
    /\ system_tray' = remove_custom_indicator(system_tray, id)
    /\ last' = IndicatorCall("remove_custom_indicator", id)
    /\ UNCHANGED <<popupVars, pending, listener, rendered, last_task, open_menu_before,
                   items_before, windows_before, chanVars, libVars>>

IndicatorNext ==
    \/ ListenerHandoff
    \/ \E a \in AppAddresses, r \in Reported, m \in BOOLEAN : ListenerAdd(a, r[1], r[2], m)
    \/ \E a \in AppAddresses, items \in Menus : ListenerMenu(a, items)
    \/ \E a \in AppAddresses, t \in Titles : ListenerTitle(a, t)
    \/ \E a \in AppAddresses : ListenerRemove(a)
    \/ View
    \/ \E a \in AppAddresses : LeftClick(a)
    \/ \E a \in AppAddresses : RightClick(a)
    \/ \E a \in AppAddresses, id \in MenuIds : MenuItemClick(a, id)
    \/ CloseMenuRequest
    \/ Completion
    \/ \E indicator \in Indicators : AddCustomIndicator(indicator)
    \/ \E id \in IndicatorIds : RemoveCustomIndicator(id)

IndicatorSpec == Init /\ [][IndicatorNext]_vars

----------------------------------------------------------------------------
(* Properties of the custom-indicator list (checked under IndicatorSpec) *)

\* the list keeps the entries whose id differs from id, in their order
RECURSIVE Retained(_, _)
Retained(list, id) ==
    IF list = <<>> THEN <<>>
    ELSE IF Head(list).id = id THEN Retained(Tail(list), id)
    ELSE <<Head(list)>> \o Retained(Tail(list), id)

(* C31: the custom-indicator list changes only through add_custom_indicator and
   remove_custom_indicator: add puts the indicator at the end and keeps what was
   there, remove deletes exactly the entries with the given id (nothing when no
   entry has it), and a step that is neither of the two calls, in particular
   every call of update, leaves the list as it was. *)
C31_IndicatorListFrame ==
    [][LET before == system_tray.custom_indicators
           after == system_tray'.custom_indicators
       IN  /\ \A indicator \in Indicators :
                 AddCustomIndicator(indicator) =>
                     /\ Len(after) = Len(before) + 1
                     /\ SubSeq(after, 1, Len(before)) = before
                     /\ after[Len(after)] = indicator
           /\ \A id \in IndicatorIds :
                 RemoveCustomIndicator(id) =>
                     /\ after = Retained(before, id)
                     /\ (\A i \in 1..Len(before) : before[i].id # id) => after = before
           /\ after # before =>
                 \/ \E indicator \in Indicators : AddCustomIndicator(indicator)
                 \/ \E id \in IndicatorIds : RemoveCustomIndicator(id)
           /\ last'.type \notin {"add_custom_indicator", "remove_custom_indicator"} =>
                 after = before]_vars

\* a remove call left the one entry with the other id in place, while the store
\* holds an item whose menu is open
C31_Witness ==
    /\ last.type = "remove_custom_indicator"
    /\ Len(system_tray.custom_indicators) = 1
    /\ system_tray.custom_indicators[1].id # last.arg
    /\ system_tray.open_menu # None

----------------------------------------------------------------------------
(* main.rs: Message *)

SystemTrayMessage(m) == [type |-> "SystemTray", msg |-> m]
OpenTrayMenu(a, items) == [type |-> "OpenTrayMenu", address |-> a, items |-> items]
ClosePopup(id) == [type |-> "ClosePopup", id |-> id]
PopupMenuItemClicked(id, a, menu_id) ==
    [type |-> "PopupMenuItemClicked", popup_id |-> id, address |-> a, menu_id |-> menu_id]
IcedEvent(event) == [type |-> "IcedEvent", event |-> event]
PopupAnimationTick == [type |-> "PopupAnimationTick"]
\* the layer-shell actions that to_layer_message adds to the enum
NewMenu(size, id) == [type |-> "NewMenu", size |-> size, id |-> id]
RemoveWindow(id) == [type |-> "RemoveWindow", id |-> id]

AppMenus == {<<>>, FullMenu}        \* Vec<MenuItem> values of the application runs
MaxPopups == 2                      \* popup ids Id::unique() hands out in a run
MaxPending == 2                     \* messages of tasks in flight at a time

Min(x, y) == IF x < y THEN x ELSE y

\* PopupAnimationState.progress is kept in hundredths: 0.0 is 0, 1.0 is ProgressFull
ProgressFull == 100
ProgressStep == 15
Shared == 0 - 1

(* main.rs: StatusBar, the fields the tray host uses *)
StatusBar ==
    [system_tray |-> system_tray, windows |-> windows, menu_data |-> menu_data,
     popup_animations |-> popup_animations]

\* slip: the animation state of a closed popup is left behind
remove_id_keeps_animation(self, id) ==
    IF id \in DOMAIN self.windows
    THEN [self EXCEPT !.windows = Remove(@, id), !.menu_data = Remove(@, id)]
    ELSE self

\* slip: only the window type is dropped, the snapshot and the animation stay
remove_id_window_only(self, id) ==
    IF id \in DOMAIN self.windows
    THEN [self EXCEPT !.windows = Remove(@, id)]
    ELSE self

remove_id(self, id) ==
    IF id \in DOMAIN self.windows
    THEN IF self.windows[id] = "TrayMenu"
         THEN [self EXCEPT !.windows = Remove(@, id),
                           !.menu_data = Remove(@, id),
                           !.popup_animations = Remove(@, id)]
         ELSE [self EXCEPT !.windows = Remove(@, id)]
    ELSE self

(* The arms of StatusBar::update: each gives the new fields and the Task. *)
\* slip: the popups of an address follow the menu the store holds for it
sb_update_SystemTray_live_menu(self, m) ==
    LET msg == m.msg
        found == IF msg.type = "ItemClicked"
                 THEN get_menu_items(self.system_tray, msg.address) ELSE {}
    IN  IF found # {} /\ found # {<<>>}
        THEN Result(self, TaskDone(OpenTrayMenu(msg.address, CHOOSE items \in found : TRUE)))
        ELSE LET r == SystemTray_update(self.system_tray, msg)
                 now == get_menu_items(r.self, msg.address)
             IN  Result([self EXCEPT
                            !.system_tray = r.self,
                            !.menu_data =
                                [id \in DOMAIN @ |->
                                    IF @[id][1] = msg.address /\ now # {}
                                    THEN <<msg.address, CHOOSE items \in now : TRUE>>
                                    ELSE @[id]]],
                        [k \in DOMAIN r.task |->
                            [r.task[k] EXCEPT !.msg = SystemTrayMessage(@)]])

sb_update_SystemTray(self, m) ==
    LET msg == m.msg
        found == IF msg.type = "ItemClicked"
                 THEN get_menu_items(self.system_tray, msg.address) ELSE {}
    IN  IF found # {} /\ found # {<<>>}
        THEN Result(self, TaskDone(OpenTrayMenu(msg.address, CHOOSE items \in found : TRUE)))
        ELSE LET r == SystemTray_update(self.system_tray, msg)
             IN  Result([self EXCEPT !.system_tray = r.self],
                        [k \in DOMAIN r.task |->
                            [r.task[k] EXCEPT !.msg = SystemTrayMessage(@)]])

sb_update_OpenTrayMenu(self, m, id) ==
    LET item_count == Len(m.items)
        menu_height == item_count * 28 + 16
        height == menu_height + 22
        content_height == menu_height
    IN  Result([self EXCEPT
                    !.menu_data = Insert(@, id, <<m.address, m.items>>),
                    !.windows = Insert(@, id, "TrayMenu"),
                    !.popup_animations =
                        Insert(@, id, [progress |-> 0, content_height |-> content_height])],
               TaskDone(NewMenu(<<200, Min(height, 400)>>, id)))

sb_update_ClosePopup(self, m) ==
    Result(remove_id(self, m.id), TaskDone(RemoveWindow(m.id)))

sb_update_PopupMenuItemClicked(self, m) ==
    LET tray_msg == MenuItemClicked(m.address, m.menu_id)
        close_task == TaskDone(ClosePopup(m.popup_id))
        r == SystemTray_update(self.system_tray, tray_msg)
        tray_task == [k \in DOMAIN r.task |-> [r.task[k] EXCEPT !.msg = SystemTrayMessage(@)]]
    IN  Result([self EXCEPT !.system_tray = r.self], TaskBatch(close_task, tray_task))

\* slip: the key drops every popup at once, inside the handler
sb_update_IcedEvent_close_all(self, m, found) ==
    IF m.event = "Escape" /\ found # {}
    THEN Result([self EXCEPT !.windows = EmptyMap, !.menu_data = EmptyMap,
                             !.popup_animations = EmptyMap],
                TaskNone)
    ELSE Result(self, TaskNone)

\* found holds the popup id the iteration over windows meets first, if there is one
sb_update_IcedEvent(self, m, found) ==
    IF m.event = "Escape" /\ found # {}
    THEN Result(self, TaskDone(ClosePopup(CHOOSE id \in found : TRUE)))
    ELSE Result(self, TaskNone)

Animating(self) ==
    {id \in DOMAIN self.popup_animations : self.popup_animations[id].progress < ProgressFull}

\* slip: the sum is stored as it is, without the clamp
sb_update_PopupAnimationTick_unclamped(self, m, found) ==
    IF found # {}
    THEN Result([self EXCEPT !.popup_animations[CHOOSE id \in found : TRUE].progress =
                                 @ + ProgressStep],
                TaskNone)
    ELSE Result(self, TaskNone)

\* slip: the clamp is just below 1.0, so the popup never counts as finished
sb_update_PopupAnimationTick_short(self, m, found) ==
    IF found # {}
    THEN Result([self EXCEPT !.popup_animations[CHOOSE id \in found : TRUE].progress =
                                 Min(@ + ProgressStep, ProgressFull - 1)],
                TaskNone)
    ELSE Result(self, TaskNone)

\* found holds the popup the iteration over popup_animations meets first among
\* those with progress < 1.0, if there is one
sb_update_PopupAnimationTick(self, m, found) ==
    IF found # {}
    THEN Result([self EXCEPT !.popup_animations[CHOOSE id \in found : TRUE].progress =
                                 Min(@ + ProgressStep, ProgressFull)],
                TaskNone)
    ELSE Result(self, TaskNone)

TrayMenus(self) == {id \in DOMAIN self.windows : self.windows[id] = "TrayMenu"}

----------------------------------------------------------------------------
(* The StatusBar application *)

\* One call of StatusBar::update by the runtime, with its result r.
Call(m, r) ==
    /\ system_tray' = r.self.system_tray
    /\ windows' = r.self.windows
    /\ menu_data' = r.self.menu_data
    /\ popup_animations' = r.self.popup_animations
    /\ last' = m
    /\ last_task' = r.task
    /\ open_menu_before' = system_tray.open_menu
    /\ items_before' = DOMAIN system_tray.items
    /\ windows_before' = DOMAIN windows
    /\ pending' = Spawned(pending, m, r.task)
    /\ UNCHANGED <<chanVars, libVars>>

StatusBar_update_SystemTray(msg) ==
    /\ Call(SystemTrayMessage(msg), sb_update_SystemTray(StatusBar, SystemTrayMessage(msg)))
    /\ UNCHANGED <<next_id, ticks>>

StatusBar_update_OpenTrayMenu(a, items) ==
    /\ Call(OpenTrayMenu(a, items), sb_update_OpenTrayMenu(StatusBar, OpenTrayMenu(a, items), next_id))
    /\ next_id' = next_id + 1
    /\ ticks' = Insert([id \in DOMAIN ticks |-> Shared], next_id,
                       IF DOMAIN windows = {} THEN 0 ELSE Shared)

StatusBar_update_ClosePopup(id) ==
    /\ Call(ClosePopup(id), sb_update_ClosePopup(StatusBar, ClosePopup(id)))
    /\ ticks' = Remove(ticks, id)
    /\ UNCHANGED next_id

StatusBar_update_PopupMenuItemClicked(id, a, menu_id) ==
    /\ Call(PopupMenuItemClicked(id, a, menu_id),
            sb_update_PopupMenuItemClicked(StatusBar, PopupMenuItemClicked(id, a, menu_id)))
    /\ UNCHANGED <<next_id, ticks>>

StatusBar_update_IcedEvent(event, found) ==
    /\ Call(IcedEvent(event), sb_update_IcedEvent(StatusBar, IcedEvent(event), found))
    /\ UNCHANGED <<next_id, ticks>>

StatusBar_update_PopupAnimationTick(found) ==
    /\ Call(PopupAnimationTick,
            sb_update_PopupAnimationTick(StatusBar, PopupAnimationTick, found))
    /\ ticks' = [id \in DOMAIN ticks |-> IF ticks[id] = Shared THEN Shared ELSE ticks[id] + 1]
    /\ UNCHANGED next_id

Room(n) == BagCardinality(pending) + n <= MaxPending
PendingOpens ==
    BagCardinality([m \in {x \in BagToSet(pending) : x.type = "OpenTrayMenu"} |-> pending[m]])

AppListenerConnectFailed ==
    /\ listener = "connect"
    /\ listener' = "parked"
    /\ UNCHANGED <<system_tray, popupVars, pending, rendered, callVars, libVars, chanVars>>

AppListenerHandoff ==
    /\ listener = "connect"
    /\ listener' = "running"
    /\ StatusBar_update_SystemTray(ActivateChannelReady)
    /\ UNCHANGED rendered

AppListenerAdd(a, t, i, m) ==
    /\ listener = "running"
    /\ StatusBar_update_SystemTray(ItemAdded(a, t, i, m))
    /\ UNCHANGED <<listener, rendered>>

AppListenerMenu(a, items) ==
    /\ listener = "running"
    /\ StatusBar_update_SystemTray(MenuUpdated(a, items))
    /\ UNCHANGED <<listener, rendered>>

AppListenerTitle(a, t) ==
    /\ listener = "running"
    /\ StatusBar_update_SystemTray(ItemUpdated(a, t, None))
    /\ UNCHANGED <<listener, rendered>>

AppListenerRemove(a) ==
    /\ listener = "running"
    /\ StatusBar_update_SystemTray(ItemRemoved(a))
    /\ UNCHANGED <<listener, rendered>>

(* StatusBar::view: the tray buttons of view_main and the rows of every popup *)
AppView ==
    /\ rendered' = [items |-> DOMAIN system_tray.items, popups |-> menu_data]
    /\ UNCHANGED <<system_tray, popupVars, pending, listener, callVars, libVars, chanVars>>

AppLeftClick(a) ==
    /\ a \in rendered.items
    /\ Room(1)
    /\ next_id + PendingOpens <= MaxPopups
    /\ StatusBar_update_SystemTray(ItemClicked(a))
    /\ UNCHANGED <<listener, rendered>>

AppRightClick(a) ==
    /\ a \in rendered.items
    /\ StatusBar_update_SystemTray(ItemRightClicked(a))
    /\ UNCHANGED <<listener, rendered>>

\* the rows view_tray_menu draws, and those among them that carry on_press
VisibleRows(items) ==
    SelectSeq(items, LAMBDA item : item.label # "" \/ item.is_separator)
Clickable(item) == ~item.is_separator /\ item.enabled

AppRowClick(id, k) ==
    /\ id \in DOMAIN rendered.popups
    /\ k \in DOMAIN VisibleRows(rendered.popups[id][2])
    /\ Clickable(VisibleRows(rendered.popups[id][2])[k])
    /\ Room(2)
    /\ StatusBar_update_PopupMenuItemClicked(id, rendered.popups[id][1],
                                             VisibleRows(rendered.popups[id][2])[k].id)
    /\ UNCHANGED <<listener, rendered>>

AppEscape ==
    /\ Room(1)
    /\ \E found \in IF TrayMenus(StatusBar) = {} THEN {{}}
                     ELSE {{id} : id \in TrayMenus(StatusBar)} :
           StatusBar_update_IcedEvent("Escape", found)
    /\ UNCHANGED <<listener, rendered>>

(* StatusBar::subscription: while a popup has progress < 1.0 the 16 ms timer
   fires and its PopupAnimationTick is on its way to update *)
AppTimer ==
    /\ Animating(StatusBar) # {}
    /\ Room(1)
    /\ pending' = pending (+) SetToBag({PopupAnimationTick})
    /\ UNCHANGED <<system_tray, popupVars, listener, rendered, callVars, libVars, chanVars>>

\* the tick of the timer reaches update
AppTick ==
    /\ BagIn(PopupAnimationTick, pending)
    /\ \E found \in IF Animating(StatusBar) = {} THEN {{}}
                     ELSE {{id} : id \in Animating(StatusBar)} :
           StatusBar_update_PopupAnimationTick(found)
    /\ UNCHANGED <<listener, rendered>>

\* a message a finished task hands back: OpenTrayMenu, ClosePopup, ActivationComplete
AppDeliver(m) ==
    /\ BagIn(m, pending)
    /\ \/ m.type = "OpenTrayMenu" /\ StatusBar_update_OpenTrayMenu(m.address, m.items)
       \/ m.type = "ClosePopup" /\ StatusBar_update_ClosePopup(m.id)
       \/ m.type = "SystemTray" /\ StatusBar_update_SystemTray(m.msg)
    /\ UNCHANGED <<listener, rendered>>

AppNext ==
    \/ AppListenerConnectFailed
    \/ AppListenerHandoff
    \/ \E a \in AppAddresses, m \in BOOLEAN : AppListenerAdd(a, None, None, m)
    \/ \E a \in AppAddresses, items \in AppMenus : AppListenerMenu(a, items)
    \/ \E a \in AppAddresses : AppListenerTitle(a, "A")
    \/ \E a \in AppAddresses : AppListenerRemove(a)
    \/ AppView
    \/ \E a \in AppAddresses : AppLeftClick(a)
    \/ \E a \in AppAddresses : AppRightClick(a)
    \/ \E id \in 1..MaxPopups, k \in DOMAIN FullMenu : AppRowClick(id, k)
    \/ AppEscape
    \/ \E m \in BagToSet(pending) : AppDeliver(m)

AppSpec == Init /\ [][AppNext]_vars

\* the messages tasks hand back in the application runs
Deliverable ==
    {OpenTrayMenu(a, items) : a \in AppAddresses, items \in AppMenus \ {<<>>}}
        \cup {ClosePopup(id) : id \in 1..MaxPopups}
        \cup {SystemTrayMessage(ActivationComplete)}

\* The runtime redraws after an update and hands the message of every finished
\* task back to update; the user and the listener are under no obligation to act.
AppFairSpec ==
    /\ AppSpec
    /\ WF_vars(AppView)
    /\ \A m \in Deliverable : WF_vars(AppDeliver(m))

(* The popups of the StatusBar with their animation: one tray item whose menu
   is known, the clicks that open its popup, the timer, and the Escape key. *)
PopupNext ==
    \/ AppListenerHandoff
    \/ \E a \in AppAddresses : AppListenerAdd(a, None, None, FALSE)
    \/ \E a \in AppAddresses : AppListenerMenu(a, QuitMenu)
    \/ AppView
    \/ \E a \in AppAddresses : AppLeftClick(a)
    \/ AppEscape
    \/ AppTimer
    \/ AppTick
    \/ \E m \in BagToSet(pending) : AppDeliver(m)

PopupSpec == Init /\ [][PopupNext]_vars

\* The timer fires every 16 ms while its subscription is active, whatever else is
\* queued (strong fairness: the room the runs leave for queued messages may be
\* taken again and again), and the runtime keeps handing queued messages to
\* update; the user and the listener are under no obligation.
PopupFairSpec ==
    /\ PopupSpec
    /\ SF_vars(AppTimer)
    /\ WF_vars(AppTick)
    /\ WF_vars(\E m \in Deliverable : AppDeliver(m))

----------------------------------------------------------------------------
(* run_tray_client with its two channels: the subscription channel to the
   foreground (stream::channel) and the activation channel to the handler
   task (mpsc::channel). *)

ChannelCap == 1                     \* places of a channel (100 and 32 in the code)
MaxSends == 2                       \* activation requests of a run

(* system_tray::client::Event as run_tray_client matches it *)
EventAdd(a, t, m) == [kind |-> "Add", address |-> a, title |-> t, item_is_menu |-> m]
EventRemove(a) == [kind |-> "Remove", address |-> a]
EventUpdateMenu(a, menu) == [kind |-> "Update", update |-> "Menu", address |-> a, menu |-> menu]
EventUpdateTitle(a, t) == [kind |-> "Update", update |-> "Title", address |-> a, title |-> t]
EventUpdateOther(a) == [kind |-> "Update", update |-> "Other", address |-> a]

Events ==
    {EventAdd(a, None, FALSE) : a \in AppAddresses}
        \cup {EventRemove(a) : a \in AppAddresses}
        \cup {EventUpdateMenu(a, QuitMenu) : a \in AppAddresses}
        \cup {EventUpdateTitle(a, "A") : a \in AppAddresses}
        \cup {EventUpdateOther(a) : a \in AppAddresses}

\* client.items() at start-up: (address, title, icon, item_is_menu, menu) entries;
\* the menu is the set of the at most one list the client holds
Snapshots ==
    {<<>>} \cup {<<[address |-> a, title |-> None, icon_handle |-> "icon",
                    item_is_menu |-> FALSE, menu |-> menu]>> :
                    a \in AppAddresses, menu \in {{}, {QuitMenu}}}

\* slip: the menu of an entry is sent before the entry itself
initial_item_messages_menu_first(e) ==
    (IF e.menu # {} THEN <<MenuUpdated(e.address, CHOOSE items \in e.menu : TRUE)>>
     ELSE <<>>)
        \o <<ItemAdded(e.address, e.title, e.icon_handle, e.item_is_menu)>>

\* the messages the first loop sends for one snapshot entry
initial_item_messages(e) ==
    <<ItemAdded(e.address, e.title, e.icon_handle, e.item_is_menu)>>
        \o (IF e.menu # {} THEN <<MenuUpdated(e.address, CHOOSE items \in e.menu : TRUE)>>
            ELSE <<>>)

RECURSIVE initial_messages(_)
initial_messages(snapshot) ==
    IF snapshot = <<>> THEN <<>>
    ELSE initial_item_messages(Head(snapshot)) \o initial_messages(Tail(snapshot))

\* slip: the items are announced before the sender is handed over
startup_messages_items_first(snapshot) ==
    initial_messages(snapshot) \o <<ActivateChannelReady>>

\* what run_tray_client sends before it enters the event loop
startup_messages(snapshot) ==
    <<ActivateChannelReady>> \o initial_messages(snapshot)

\* slip: title updates are skipped like the icon updates
event_messages_skip_title(event) ==
    CASE event.kind = "Add" ->
            <<ItemAdded(event.address, event.title, None, event.item_is_menu)>>
      [] event.kind = "Remove" -> <<ItemRemoved(event.address)>>
      [] event.kind = "Update" /\ event.update = "Menu" ->
            <<MenuUpdated(event.address, event.menu)>>
      [] OTHER -> <<>>

\* slip: an icon update is forwarded with a handle fetched anew
event_messages_forward_icon(event) ==
    CASE event.kind = "Add" ->
            <<ItemAdded(event.address, event.title, None, event.item_is_menu)>>
      [] event.kind = "Remove" -> <<ItemRemoved(event.address)>>
      [] event.kind = "Update" /\ event.update = "Menu" ->
            <<MenuUpdated(event.address, event.menu)>>
      [] event.kind = "Update" /\ event.update = "Title" ->
            <<ItemUpdated(event.address, event.title, None)>>
      [] OTHER -> <<ItemUpdated(event.address, None, "fetched")>>

\* slip: removals are skipped like the icon updates
event_messages_skip_remove(event) ==
    CASE event.kind = "Add" ->
            <<ItemAdded(event.address, event.title, None, event.item_is_menu)>>
      [] event.kind = "Update" /\ event.update = "Menu" ->
            <<MenuUpdated(event.address, event.menu)>>
      [] event.kind = "Update" /\ event.update = "Title" ->
            <<ItemUpdated(event.address, event.title, None)>>
      [] OTHER -> <<>>

\* the match of the event loop: the messages sent for one received event
event_messages(event) ==
    CASE event.kind = "Add" ->
            <<ItemAdded(event.address, event.title, None, event.item_is_menu)>>
      [] event.kind = "Remove" -> <<ItemRemoved(event.address)>>
      [] event.kind = "Update" /\ event.update = "Menu" ->
            <<MenuUpdated(event.address, event.menu)>>
      [] event.kind = "Update" /\ event.update = "Title" ->
            <<ItemUpdated(event.address, event.title, None)>>
      [] OTHER -> <<>>

\* slip: the channel is created when the handler is spawned, not before
activate_rx_at_spawn_fresh(receiver) == <<>>

\* the receiver is created with the sender and moved into the handler task:
\* what was sent before the spawn is still in it
activate_rx_at_spawn(receiver) == receiver

\* slip: the handler task ends at the first activation that fails
handler_after_stop_on_error(ok) == IF ok THEN "running" ELSE "stopped"

\* the handler task after client.activate returned: the error is logged, the
\* while-let loop goes on
handler_after(ok) == "running"

(* Client::new() failed: the listener parks *)
LConnectFailed ==
    /\ listener = "connect"
    /\ listener' = "parked"
    /\ UNCHANGED <<system_tray, popupVars, pending, rendered, callVars, libVars, output, to_send,
                   owed, activate_rx, sending, handler, activated, serial, last_event>>

(* Client::new() succeeded: the channel is created; the sender and the
   snapshot of client.items() are what the listener sends first *)
LConnect(snapshot) ==
    /\ listener = "connect"
    /\ listener' = "snapshot"
    /\ to_send' = startup_messages(snapshot)
    /\ owed' = <<ActivateChannelReady>> \o initial_messages(snapshot)
    /\ UNCHANGED <<system_tray, popupVars, pending, rendered, callVars, libVars, output,
                   activate_rx, sending, handler, activated, serial, last_event>>

(* output.send(..).await: waits while the channel is full *)
LSend ==
    /\ listener \in {"snapshot", "loop"}
    /\ to_send # <<>>
    /\ Len(output) < ChannelCap
    /\ output' = Append(output, Head(to_send))
    /\ to_send' = Tail(to_send)
    /\ UNCHANGED <<system_tray, popupVars, pending, rendered, callVars, libVars, listener, owed,
                   activate_rx, sending, handler, activated, serial, last_event>>

(* tokio::spawn of the activation handler, after the snapshot was sent *)
LSpawn ==
    /\ listener = "snapshot"
    /\ to_send = <<>>
    /\ listener' = "loop"
    /\ handler' = "running"
    /\ activate_rx' = activate_rx_at_spawn(activate_rx)
    /\ UNCHANGED <<system_tray, popupVars, pending, rendered, callVars, libVars, output, to_send,
                   owed, sending, activated, serial, last_event>>

(* rx.recv() returned an event *)
LRecv(event) ==
    /\ listener = "loop"
    /\ to_send = <<>>
    /\ last_event' = event
    /\ to_send' = event_messages(event)
    /\ owed' = owed \o (IF event.kind = "Update" /\ event.update = "Other" THEN <<>>
                        ELSE <<event>>)
    /\ UNCHANGED <<system_tray, popupVars, pending, rendered, callVars, libVars, listener, output,
                   activate_rx, sending, handler, activated, serial>>

\* slip: the listener starts over with a new client
after_recv_error_reconnect == "connect"

\* Err(e) of rx.recv(): break, then future::pending
after_recv_error == "parked"

(* rx.recv() returned an error: the loop is left and the listener parks *)
LRecvError ==
    /\ listener = "loop"
    /\ to_send = <<>>
    /\ listener' = after_recv_error
    /\ UNCHANGED <<system_tray, popupVars, pending, rendered, callVars, libVars, output, to_send,
                   owed, activate_rx, sending, handler, activated, serial, last_event>>

\* the bag of the requests the send units of a task hold
RequestBag(task) ==
    LET sends == Requests(task)
    IN  [q \in {sends[k].request : k \in DOMAIN sends} |->
            Cardinality({k \in DOMAIN sends : sends[k].request = q})]

\* update handles m, and the sends of the task it returned are started
LApply(m) ==
    /\ Handled(m)
    /\ sending' = sending (+) RequestBag(last_task')
    /\ UNCHANGED popupVars

(* the runtime takes the next message of the subscription and calls update *)
LDeliver ==
    /\ output # <<>>
    /\ LApply(Head(output))
    /\ output' = Tail(output)
    /\ owed' = Tail(owed)
    /\ UNCHANGED <<pending, rendered, listener, to_send, activate_rx, handler, activated,
                   serial, last_event>>

LView ==
    /\ rendered' = [rendered EXCEPT !.items = DOMAIN system_tray.items]
    /\ UNCHANGED <<system_tray, popupVars, pending, listener, callVars, libVars, output, to_send,
                   owed, activate_rx, sending, handler, activated, serial, last_event>>

LLeftClick(a) ==
    /\ a \in rendered.items
    /\ serial + BagCardinality(sending) < MaxSends
    /\ LApply(ItemClicked(a))
    /\ UNCHANGED <<pending, rendered, listener, output, to_send, owed, activate_rx,
                   handler, activated, serial, last_event>>

(* tx.send(request).await of a started task: the request enters the channel
   when there is room; the task then yields ActivationComplete, which update
   handles *)
LSendRequest(request) ==
    /\ BagIn(request, sending)
    /\ Len(activate_rx) < ChannelCap
    /\ sending' = sending (-) SetToBag({request})
    /\ serial' = serial + 1
    /\ activate_rx' = Append(activate_rx,
                             [request |-> request, n |-> serial + 1,
                              early |-> handler = "unspawned"])
    /\ Handled(ActivationComplete)
    /\ UNCHANGED <<popupVars, pending, rendered, listener, output, to_send, owed, handler,
                   activated, last_event>>

(* the handler task: activate_rx.recv() gave a request, client.activate(request)
   returned Ok or Err *)
LActivate(ok) ==
    /\ handler = "running"
    /\ activate_rx # <<>>
    /\ activate_rx' = Tail(activate_rx)
    /\ activated' = Append(activated, [request |-> Head(activate_rx).request,
                                       n |-> Head(activate_rx).n,
                                       early |-> Head(activate_rx).early, ok |-> ok])
    /\ handler' = handler_after(ok)
    /\ UNCHANGED <<system_tray, popupVars, pending, rendered, callVars, libVars, listener, output,
                   to_send, owed, sending, serial, last_event>>

ListenerNext ==
    \/ LConnectFailed
    \/ \E snapshot \in Snapshots : LConnect(snapshot)
    \/ LSend
    \/ LSpawn
    \/ \E event \in Events : LRecv(event)
    \/ LRecvError
    \/ LDeliver
    \/ LView
    \/ \E a \in AppAddresses : LLeftClick(a)
    \/ \E request \in BagToSet(sending) : LSendRequest(request)
    \/ \E ok \in BOOLEAN : LActivate(ok)

ListenerSpec == Init /\ [][ListenerNext]_vars

\* Both tasks and the foreground are scheduled by the runtime and every await of
\* theirs returns; the protocol client and the user are under no obligation.
ListenerFairSpec ==
    /\ ListenerSpec
    /\ WF_vars(LSend)
    /\ WF_vars(LSpawn)
    /\ WF_vars(LDeliver)
    /\ WF_vars(\E request \in BagToSet(sending) : LSendRequest(request))
    /\ WF_vars(\E ok \in BOOLEAN : LActivate(ok))

----------------------------------------------------------------------------
(* icon.rs: the icon resolver and its cache *)

ICON_SIZE == 22

\* The integer types are kept in proportion: i32 has 10 value bits here (31 in
\* the code) and usize 22 bits (64 in the code), so that, as in the code,
\* I32_MAX * I32_MAX * 4 fits a usize and exceeds isize::MAX.
I32_MAX == 1023
ISIZE_MAX == 2097151

Abs(x) == IF x < 0 THEN 0 - x ELSE x

\* system_tray::item::IconPixmap
IconPixmap(w, h, pixels) == [width |-> w, height |-> h, pixels |-> pixels]

\* iced image::Handle
from_rgba(w, h, rgba) == [kind |-> "rgba", width |-> w, height |-> h, pixels |-> rgba]
from_path(path) == [kind |-> "path", path |-> path]

\* how a call ends: it returns a value or it panics
Returned(value) == [panic |-> FALSE, value |-> value]
Panicked == [panic |-> TRUE, value |-> "capacity overflow"]

\* vec![0; n]: a buffer of more than isize::MAX bytes cannot be laid out
vec_zeroed(n) == IF n > ISIZE_MAX THEN Panicked ELSE Returned([i \in 1..n |-> 0])

\* every whole chunk [A, R, G, B] of the source is pushed as [R, G, B, A]
argb32_to_rgba(argb, width, height) ==
    LET expected_len == width * height * 4
    IN  IF Len(argb) < expected_len
        THEN vec_zeroed(expected_len)
        ELSE Returned([i \in 1..(4 * (Len(argb) \div 4)) |->
                          LET chunk == (i - 1) \div 4
                              k == (i - 1) % 4
                          IN  argb[4 * chunk + (IF k = 3 THEN 1 ELSE k + 2)]])

\* slip: of several minimal elements the last is taken
min_by_key_last(keys) ==
    CHOOSE i \in DOMAIN keys :
        \A j \in DOMAIN keys : keys[i] <= keys[j] /\ (keys[j] = keys[i] => j <= i)

\* Iterator::min_by_key on a non-empty sequence, given the keys of its elements:
\* the place of the first of the minimal elements
min_by_key(keys) ==
    CHOOSE i \in DOMAIN keys :
        \A j \in DOMAIN keys : keys[i] <= keys[j] /\ (keys[j] = keys[i] => i <= j)

\* Option<image::Handle> as the set of the at most one handle
pixmap_to_handle(pixmaps) ==
    LET candidates == SelectSeq(pixmaps, LAMBDA p : p.width > 0 /\ p.height > 0)
    IN  IF Len(candidates) = 0 THEN Returned({})
        ELSE LET pixmap == candidates[min_by_key([n \in DOMAIN candidates |->
                                                     Abs(candidates[n].width - ICON_SIZE)])]
                 rgba == argb32_to_rgba(pixmap.pixels, pixmap.width, pixmap.height)
             IN  IF Len(pixmap.pixels) = 0 THEN Returned({})
                 ELSE IF rgba.panic THEN rgba
                 ELSE Returned({from_rgba(pixmap.width, pixmap.height, rgba.value)})

lookup_freedesktop_icon(name) == {}

extensions == <<"png", "svg", "xpm">>
sizes == <<ICON_SIZE, 24, 32, 48, 22, 16>>

\* {theme_path}/{size}x{size}/{icon_name}.{ext}
SizedPath(theme_path, size, icon_name, ext) ==
    [layout |-> "sized", dir |-> theme_path, size |-> size, name |-> icon_name,
     ext |-> ext]
\* {theme_path}/{icon_name}.{ext}
DirectPath(theme_path, icon_name, ext) ==
    [layout |-> "direct", dir |-> theme_path, size |-> 0, name |-> icon_name, ext |-> ext]
\* {theme_path}/hicolor/{size}x{size}/apps/{icon_name}.{ext}
HicolorPath(theme_path, size, icon_name, ext) ==
    [layout |-> "hicolor", dir |-> theme_path, size |-> size, name |-> icon_name,
     ext |-> ext]

\* the paths find_icon_in_path probes, in its order
probes(theme_path, icon_name) ==
    [n \in 1..18 |-> SizedPath(theme_path, sizes[((n - 1) \div 3) + 1], icon_name,
                               extensions[((n - 1) % 3) + 1])]
        \o [n \in 1..3 |-> DirectPath(theme_path, icon_name, extensions[n])]
        \o [n \in 1..18 |-> HicolorPath(theme_path, sizes[((n - 1) \div 3) + 1],
                                        icon_name, extensions[((n - 1) % 3) + 1])]

\* the first probed path that exists, with the number of path.exists() calls made
find_icon_in_path(disk, theme_path, icon_name) ==
    LET paths == probes(theme_path, icon_name)
        hits == {n \in DOMAIN paths : paths[n] \in disk}
    IN  IF hits = {} THEN [result |-> {}, checks |-> Len(paths)]
        ELSE LET first == CHOOSE n \in hits : \A k \in hits : n <= k
             IN  [result |-> {paths[first]}, checks |-> first]

get_or_init_cache(cache) == IF cache = {} THEN {EmptyMap} ELSE cache

\* slip: only the paths that were found are recorded
find_icon_in_path_cached_hits_only(cache, disk, theme_path, icon_name) ==
    LET initialised == get_or_init_cache(cache)
        cache_map == CHOOSE map \in initialised : TRUE
        key == <<theme_path, icon_name>>
        found == find_icon_in_path(disk, theme_path, icon_name)
    IN  IF key \in DOMAIN cache_map
        THEN [cache |-> initialised, result |-> cache_map[key], checks |-> 0]
        ELSE [cache |-> IF found.result = {} THEN initialised
                        ELSE {Insert(cache_map, key, found.result)},
              result |-> found.result, checks |-> found.checks]

\* the cache after the call, the result and the number of path.exists() calls
find_icon_in_path_cached(cache, disk, theme_path, icon_name) ==
    LET initialised == get_or_init_cache(cache)
        cache_map == CHOOSE map \in initialised : TRUE
        key == <<theme_path, icon_name>>
        found == find_icon_in_path(disk, theme_path, icon_name)
    IN  IF key \in DOMAIN cache_map
        THEN [cache |-> initialised, result |-> cache_map[key], checks |-> 0]
        ELSE [cache |-> {Insert(cache_map, key, found.result)},
              result |-> found.result, checks |-> found.checks]

\* the outcome of resolve_icon with the cache it leaves: Option fields of the
\* item are the sets of their at most one value
resolve_icon(cache, disk, item) ==
    LET from_pixmap == IF item.icon_pixmap # {}
                       THEN pixmap_to_handle(CHOOSE pixmaps \in item.icon_pixmap : TRUE)
                       ELSE Returned({})
        named == item.icon_name # {} /\ item.icon_name # {""}
        themed == named /\ item.icon_theme_path # {} /\ item.icon_theme_path # {""}
        looked == find_icon_in_path_cached(cache, disk,
                                           CHOOSE theme_path \in item.icon_theme_path : TRUE,
                                           CHOOSE icon_name \in item.icon_name : TRUE)
    IN  IF from_pixmap.panic THEN [outcome |-> from_pixmap, cache |-> cache, checks |-> 0]
        ELSE IF from_pixmap.value # {}
        THEN [outcome |-> from_pixmap, cache |-> cache, checks |-> 0]
        ELSE IF themed /\ looked.result # {}
        THEN [outcome |-> Returned({from_path(CHOOSE path \in looked.result : TRUE)}),
              cache |-> looked.cache, checks |-> looked.checks]
        ELSE IF named
        THEN [outcome |-> Returned({from_path(path) :
                                        path \in lookup_freedesktop_icon(
                                            CHOOSE icon_name \in item.icon_name : TRUE)}),
              cache |-> IF themed THEN looked.cache ELSE cache,
              checks |-> IF themed THEN looked.checks ELSE 0]
        ELSE [outcome |-> Returned({}), cache |-> cache, checks |-> 0]

\* the host variables, which the functions of icon.rs and menu.rs never touch
hostVars == <<system_tray, popupVars, pending, listener, rendered, callVars, chanVars>>

Px == <<255, 16, 32, 48>>           \* one pixel [A, R, G, B]

\* Vec<IconPixmap> values of the runs
PixmapLists ==
    {<<>>,
     <<IconPixmap(16, 1, Px), IconPixmap(20, 1, Px), IconPixmap(24, 1, Px),
       IconPixmap(48, 1, Px)>>,
     <<IconPixmap(20, 1, Px), IconPixmap(24, 1, Px)>>,
     <<IconPixmap(24, 1, Px), IconPixmap(20, 1, Px)>>,
     <<IconPixmap(22, 1, <<>>), IconPixmap(24, 1, Px)>>,
     <<IconPixmap(0, 22, Px), IconPixmap(22, 0, Px), IconPixmap(0 - 1, 1, Px)>>,
     <<IconPixmap(0, 1, Px), IconPixmap(1, 1, Px)>>,
     <<IconPixmap(2, 2, Px)>>,
     <<IconPixmap(1, 2, Px \o <<128, 1, 2, 3>>)>>,
     <<IconPixmap(1, 1, Px \o <<128, 1, 2, 3>>)>>,
     <<IconPixmap(I32_MAX, I32_MAX, Px)>>}

\* StatusNotifierItem values of the runs: the three fields resolve_icon reads
SniItems ==
    [icon_pixmap : {{}} \cup {{pixmaps} : pixmaps \in PixmapLists},
     icon_name : {{}, {""}, {"app"}},
     icon_theme_path : {{}, {""}, {"/t"}}]

\* the files that come and go on disk during a run
FileUniverse ==
    {SizedPath("/t", 24, "app", "svg"), DirectPath("/t", "app", "png"),
     HicolorPath("/t", 16, "app", "xpm")}

IconInit ==
    /\ HostInit
    /\ sni_item \in SniItems
    /\ tray_menu = [submenus |-> <<>>]
    /\ files = {}
    /\ ICON_CACHE = {}
    /\ lib_call = [fn |-> "none"]
    /\ ThreadsIdle
    /\ ClientIdle

ResolveIcon ==
    LET r == resolve_icon(ICON_CACHE, files, sni_item)
    IN  /\ lib_call' = [fn |-> "resolve_icon", outcome |-> r.outcome, checks |-> r.checks]
        /\ ICON_CACHE' = r.cache
        /\ UNCHANGED <<hostVars, threadVars, clientVars, sni_item, tray_menu, files>>

PixmapToHandle ==
    /\ sni_item.icon_pixmap # {}
    /\ lib_call' = [fn |-> "pixmap_to_handle",
                    outcome |-> pixmap_to_handle(CHOOSE pixmaps \in sni_item.icon_pixmap : TRUE)]
    /\ UNCHANGED <<hostVars, threadVars, clientVars, sni_item, tray_menu, files, ICON_CACHE>>

(* argb32_to_rgba on the n-th pixmap of the item; its dimensions are cast to
   usize from positive values *)
ArgbToRgba(n) ==
    /\ sni_item.icon_pixmap # {}
    /\ LET pixmaps == CHOOSE list \in sni_item.icon_pixmap : TRUE
       IN  /\ n \in DOMAIN pixmaps
           /\ pixmaps[n].width > 0 /\ pixmaps[n].height > 0
           /\ lib_call' = [fn |-> "argb32_to_rgba", argb |-> pixmaps[n].pixels,
                           width |-> pixmaps[n].width, height |-> pixmaps[n].height,
                           outcome |-> argb32_to_rgba(pixmaps[n].pixels, pixmaps[n].width,
                                                      pixmaps[n].height)]
    /\ UNCHANGED <<hostVars, threadVars, clientVars, sni_item, tray_menu, files, ICON_CACHE>>

FindIconCached ==
    /\ sni_item.icon_name # {} /\ sni_item.icon_theme_path # {}
    /\ LET theme_path == CHOOSE dir \in sni_item.icon_theme_path : TRUE
           icon_name == CHOOSE name \in sni_item.icon_name : TRUE
           r == find_icon_in_path_cached(ICON_CACHE, files, theme_path, icon_name)
       IN  /\ lib_call' = [fn |-> "find_icon_in_path_cached",
                           key |-> <<theme_path, icon_name>>, disk |-> files,
                           result |-> r.result, checks |-> r.checks]
           /\ ICON_CACHE' = r.cache
    /\ UNCHANGED <<hostVars, threadVars, clientVars, sni_item, tray_menu, files>>

(* the environment: an icon file appears on disk or is deleted *)
FileCreated(path) ==
    /\ path \notin files
    /\ files' = files \cup {path}
    /\ UNCHANGED <<hostVars, threadVars, clientVars, sni_item, tray_menu, ICON_CACHE, lib_call>>

FileDeleted(path) ==
    /\ path \in files
    /\ files' = files \ {path}
    /\ UNCHANGED <<hostVars, threadVars, clientVars, sni_item, tray_menu, ICON_CACHE, lib_call>>

IconNext ==
    \/ ResolveIcon
    \/ PixmapToHandle
    \/ \E n \in 1..4 : ArgbToRgba(n)
    \/ FindIconCached
    \/ \E path \in FileUniverse : FileCreated(path)
    \/ \E path \in FileUniverse : FileDeleted(path)

IconSpec == IconInit /\ [][IconNext]_vars

----------------------------------------------------------------------------
(* icon.rs: find_icon_in_path_cached called from several threads. Each thread
   steps through the function; a lock is taken in one step and dropped in a
   later one, and the disk may change between any two steps. *)

\* RwLock::read and RwLock::write succeed once no conflicting guard is held
can_read(lock) == lock.writer = {}
can_write(lock) == lock.writer = {} /\ lock.readers = {}
read(lock, t) == [lock EXCEPT !.readers = @ \cup {t}]
write(lock, t) == [lock EXCEPT !.writer = {t}]

\* slip: the guard lives on after the block that took it
drop_guard_leaked(lock, t) == lock

\* the guard of thread t goes out of scope (or is dropped by drop(guard))
drop_guard(lock, t) == [lock EXCEPT !.readers = @ \ {t}, !.writer = @ \ {t}]

Holds(t) == t \in cache_lock.readers \cup cache_lock.writer

\* cache_map.insert(key, result.clone()) on the map, if the cache holds one
cache_insert(cache, key, result) ==
    IF cache = {} THEN cache ELSE {Insert(CHOOSE map \in cache : TRUE, key, result)}

At(t, pc) == callers[t].pc = pc
Goto(t, pc) == callers' = [callers EXCEPT ![t].pc = pc]

(* a thread enters find_icon_in_path_cached(theme_path, icon_name) *)
CacheCall(t, theme_path, icon_name) ==
    /\ At(t, "idle")
    /\ callers' = [callers EXCEPT ![t] =
                       [pc |-> "init", key |-> <<theme_path, icon_name>>, result |-> {},
                        seen |-> {pair[2] : pair \in
                                    {p \in returned : p[1] = <<theme_path, icon_name>>}}]]
    /\ UNCHANGED <<hostVars, clientVars, sni_item, tray_menu, files, ICON_CACHE, lib_call, cache_lock,
                   returned>>

(* get_or_init_cache: ICON_CACHE.read() *)
CacheInitRead(t) ==
    /\ At(t, "init")
    /\ can_read(cache_lock)
    /\ cache_lock' = read(cache_lock, t)
    /\ Goto(t, "init_check")
    /\ UNCHANGED <<hostVars, clientVars, sni_item, tray_menu, files, ICON_CACHE, lib_call, returned>>

(* get_or_init_cache: guard.is_none(); the read guard is dropped either way *)
CacheInitCheck(t) ==
    /\ At(t, "init_check")
    /\ cache_lock' = drop_guard(cache_lock, t)
    /\ Goto(t, IF ICON_CACHE = {} THEN "init_write" ELSE "check")
    /\ UNCHANGED <<hostVars, clientVars, sni_item, tray_menu, files, ICON_CACHE, lib_call, returned>>

(* get_or_init_cache: ICON_CACHE.write() *)
CacheInitWrite(t) ==
    /\ At(t, "init_write")
    /\ can_write(cache_lock)
    /\ cache_lock' = write(cache_lock, t)
    /\ Goto(t, "init_store")
    /\ UNCHANGED <<hostVars, clientVars, sni_item, tray_menu, files, ICON_CACHE, lib_call, returned>>

(* get_or_init_cache: the empty map is stored unless another thread was first *)
CacheInitStore(t) ==
    /\ At(t, "init_store")
    /\ ICON_CACHE' = get_or_init_cache(ICON_CACHE)
    /\ cache_lock' = drop_guard(cache_lock, t)
    /\ Goto(t, "check")
    /\ UNCHANGED <<hostVars, clientVars, sni_item, tray_menu, files, lib_call, returned>>

(* find_icon_in_path_cached: cache.read() *)
CacheCheckRead(t) ==
    /\ At(t, "check")
    /\ can_read(cache_lock)
    /\ cache_lock' = read(cache_lock, t)
    /\ Goto(t, "lookup")
    /\ UNCHANGED <<hostVars, clientVars, sni_item, tray_menu, files, ICON_CACHE, lib_call, returned>>

(* find_icon_in_path_cached: cache_map.get(&key); a hit returns the recorded
   value, a miss leaves the block, and the read guard goes with either *)
CacheLookup(t) ==
    /\ At(t, "lookup")
    /\ cache_lock' = drop_guard(cache_lock, t)
    /\ LET cache_map == CHOOSE map \in get_or_init_cache(ICON_CACHE) : TRUE
           key == callers[t].key
       IN  callers' = [callers EXCEPT ![t] =
                IF ICON_CACHE # {} /\ key \in DOMAIN cache_map
                THEN [@ EXCEPT !.pc = "return", !.result = cache_map[key]]
                ELSE [@ EXCEPT !.pc = "probe"]]
    /\ UNCHANGED <<hostVars, clientVars, sni_item, tray_menu, files, ICON_CACHE, lib_call, returned>>

(* find_icon_in_path_cached: find_icon_in_path on the disk as it is now *)
CacheProbe(t) ==
    /\ At(t, "probe")
    /\ callers' = [callers EXCEPT
                       ![t].pc = "store",
                       ![t].result = find_icon_in_path(files, callers[t].key[1],
                                                       callers[t].key[2]).result]
    /\ lib_call' = [fn |-> "find_icon_in_path", thread |-> t, holding |-> Holds(t)]
    /\ UNCHANGED <<hostVars, clientVars, sni_item, tray_menu, files, ICON_CACHE, cache_lock, returned>>

(* find_icon_in_path_cached: cache.write() *)
CacheStoreWrite(t) ==
    /\ At(t, "store")
    /\ can_write(cache_lock)
    /\ cache_lock' = write(cache_lock, t)
    /\ Goto(t, "insert")
    /\ UNCHANGED <<hostVars, clientVars, sni_item, tray_menu, files, ICON_CACHE, lib_call, returned>>

(* find_icon_in_path_cached: cache_map.insert(key, result.clone()) *)
CacheInsert(t) ==
    /\ At(t, "insert")
    /\ ICON_CACHE' = cache_insert(ICON_CACHE, callers[t].key, callers[t].result)
    /\ cache_lock' = drop_guard(cache_lock, t)
    /\ Goto(t, "return")
    /\ UNCHANGED <<hostVars, clientVars, sni_item, tray_menu, files, lib_call, returned>>

(* find_icon_in_path_cached returns its result to the caller *)
CacheReturn(t) ==
    /\ At(t, "return")
    /\ returned' = returned \cup {<<callers[t].key, callers[t].result>>}
    /\ callers' = [callers EXCEPT ![t].pc = "returned"]
    /\ UNCHANGED <<hostVars, clientVars, sni_item, tray_menu, files, ICON_CACHE, lib_call, cache_lock>>

(* the caller goes on; it may call again *)
CacheDone(t) ==
    /\ At(t, "returned")
    /\ callers' = [callers EXCEPT ![t] = IdleCaller]
    /\ UNCHANGED <<hostVars, clientVars, sni_item, tray_menu, files, ICON_CACHE, lib_call, cache_lock,
                   returned>>

CacheNext ==
    \/ \E t \in Threads : CacheCall(t, "/t", "app")
    \/ \E t \in Threads : CacheInitRead(t)
    \/ \E t \in Threads : CacheInitCheck(t)
    \/ \E t \in Threads : CacheInitWrite(t)
    \/ \E t \in Threads : CacheInitStore(t)
    \/ \E t \in Threads : CacheCheckRead(t)
    \/ \E t \in Threads : CacheLookup(t)
    \/ \E t \in Threads : CacheProbe(t)
    \/ \E t \in Threads : CacheStoreWrite(t)
    \/ \E t \in Threads : CacheInsert(t)
    \/ \E t \in Threads : CacheReturn(t)
    \/ \E t \in Threads : CacheDone(t)
    \/ \E path \in FileUniverse : FileCreated(path)
    \/ \E path \in FileUniverse : FileDeleted(path)

CacheSpec == Init /\ [][CacheNext]_vars

----------------------------------------------------------------------------
(* menu.rs: the menu converter *)

\* system_tray::menu::MenuItem; a label is the sequence of its characters, the
\* Option<String> of the wire the set of the at most one label
SniMenuItem(id, label, enabled, menu_type, toggle_type, toggle_state, submenu) ==
    [id |-> id, label |-> label, enabled |-> enabled, menu_type |-> menu_type,
     toggle_type |-> toggle_type, toggle_state |-> toggle_state, submenu |-> submenu]

\* String::replace('_', "")
replace_underscores(label) == SelectSeq(label, LAMBDA c : c # "_")

\* Option<String>::unwrap_or_default
unwrap_or_default(label) == IF label = {} THEN <<>> ELSE CHOOSE l \in label : TRUE

RECURSIVE convert_menu_item(_)
convert_menu_item(item) ==
    [id |-> item.id,
     label |-> replace_underscores(unwrap_or_default(item.label)),
     enabled |-> item.enabled,
     is_separator |-> item.menu_type = "Separator",
     is_checkable |-> item.toggle_type # "CannotBeToggled",
     is_checked |-> item.toggle_state = "On",
     submenu |-> [n \in DOMAIN item.submenu |-> convert_menu_item(item.submenu[n])]]

convert_menu(menu) == [n \in DOMAIN menu.submenus |-> convert_menu_item(menu.submenus[n])]

\* Option<String> labels of the runs: None, "", "_Open File", "No Markers" and
\* "_Save _As"
Labels ==
    {{}, {<<>>},
     {<<"_", "O", "p", "e", "n", " ", "F", "i", "l", "e">>},
     {<<"N", "o", " ", "M", "a", "r", "k", "e", "r", "s">>},
     {<<"_", "S", "a", "v", "e", " ", "_", "A", "s">>}}

\* the wire items of the runs without children
LeafItems ==
    {SniMenuItem(7, label, enabled, menu_type, toggle_type, toggle_state, <<>>) :
        label \in Labels, enabled \in BOOLEAN, menu_type \in {"Standard", "Separator"},
        toggle_type \in {"CannotBeToggled", "Checkmark"}, toggle_state \in {"On", "Off"}}

CapLevels == 6                      \* stands for the 64 levels of the documented cap
DeepLevels == CapLevels + 1         \* nesting depth of the deepest wire menu of the runs

\* a wire item with the given number of levels, one child per level
RECURSIVE Nested(_)
Nested(levels) ==
    SniMenuItem(levels, {<<"_", "U", "p">>}, TRUE, "Standard", "CannotBeToggled", "Off",
                IF levels <= 1 THEN <<>> ELSE <<Nested(levels - 1)>>)

\* TrayMenu values of the runs: one entry, one entry with one child, two entries,
\* and one entry nested DeepLevels deep
SniMenus ==
    {[submenus |-> <<Nested(DeepLevels)>>]} \cup
    {[submenus |-> <<item>>] : item \in LeafItems}
        \cup {[submenus |-> <<SniMenuItem(8, {<<"_", "U", "p">>}, TRUE, "Standard",
                                          "CannotBeToggled", "Off", <<item>>)>>] :
                  item \in {i \in LeafItems : i.enabled /\ i.toggle_state = "Off"}}
        \cup {[submenus |-> <<SniMenuItem(8, {}, TRUE, "Separator", "CannotBeToggled",
                                          "Off", <<>>), item>>] :
                  item \in {i \in LeafItems : i.label # {} /\ i.label # {<<>>}}}

MenuInit ==
    /\ HostInit
    /\ sni_item = [icon_pixmap |-> {}, icon_name |-> {}, icon_theme_path |-> {}]
    /\ tray_menu \in SniMenus
    /\ files = {}
    /\ ICON_CACHE = {}
    /\ lib_call = [fn |-> "none"]
    /\ ThreadsIdle
    /\ ClientIdle

ConvertMenu ==
    /\ lib_call' = [fn |-> "convert_menu", result |-> convert_menu(tray_menu)]
    /\ UNCHANGED <<hostVars, threadVars, clientVars, sni_item, tray_menu, files, ICON_CACHE>>

ConvertMenuItem(n) ==
    /\ n \in DOMAIN tray_menu.submenus
    /\ lib_call' = [fn |-> "convert_menu_item", item |-> tray_menu.submenus[n],
                    result |-> convert_menu_item(tray_menu.submenus[n])]
    /\ UNCHANGED <<hostVars, threadVars, clientVars, sni_item, tray_menu, files, ICON_CACHE>>

MenuNext ==
    \/ ConvertMenu
    \/ \E n \in 1..2 : ConvertMenuItem(n)

MenuSpec == MenuInit /\ [][MenuNext]_vars

----------------------------------------------------------------------------
(* run_tray_client with the protocol client behind it: the client owns the item
   map under a mutex and broadcasts an event for every change; the listener
   subscribes, takes its snapshot under that mutex, sends it, and then forwards
   the events of its receiver. *)

RxCap == 2                          \* events the runs let wait in the receiver

\* the StatusNotifierItem of the runs: no pixmap, icon "app" of theme path "/t"
ClientItem ==
    [title |-> None, item_is_menu |-> FALSE,
     sni |-> [icon_pixmap |-> {}, icon_name |-> {"app"}, icon_theme_path |-> {"/t"}]]

\* Option<TrayMenu> values the client holds for an item
ClientMenus ==
    {{}, {[submenus |-> <<SniMenuItem(7, {<<"_", "Q", "u", "i", "t">>}, TRUE, "Standard",
                                      "CannotBeToggled", "Off", <<>>)>>]}}

ClientEventAdd(a, item) == [kind |-> "Add", address |-> a, item |-> item]

Subscribed == listener \in {"subscribed", "locked", "snapshot", "loop"}

\* what a change of the client's map adds to the receiver
Broadcast(event) == IF Subscribed THEN Append(rx, event) ELSE rx

\* the Option<image::Handle> of a resolve_icon call that returned, as the set
\* of its at most one handle
icon_handle_of(resolved) == resolved.outcome.value

(* the protocol client learns of a new item: it enters the map under the
   mutex and Event::Add is broadcast *)
ClientAdd(a, menu) ==
    /\ a \notin DOMAIN client_items
    /\ items_guard = {}
    /\ Len(rx) < RxCap
    /\ client_items' = Insert(client_items, a, [item |-> ClientItem, menu |-> menu])
    /\ rx' = Broadcast(ClientEventAdd(a, ClientItem))
    /\ UNCHANGED <<hostVars, threadVars, sni_item, tray_menu, files, ICON_CACHE, lib_call,
                   items_guard, initial_items_data>>

(* the protocol client loses an item: it leaves the map and Event::Remove is
   broadcast *)
ClientRemove(a) ==
    /\ a \in DOMAIN client_items
    /\ items_guard = {}
    /\ Len(rx) < RxCap
    /\ client_items' = Remove(client_items, a)
    /\ rx' = Broadcast(EventRemove(a))
    /\ UNCHANGED <<hostVars, threadVars, sni_item, tray_menu, files, ICON_CACHE, lib_call,
                   items_guard, initial_items_data>>

(* Client::new() succeeded: the activation channel is created and its sender
   is what the listener sends first *)
CConnect ==
    /\ listener = "connect"
    /\ listener' = "handoff"
    /\ to_send' = <<ActivateChannelReady>>
    /\ owed' = <<ActivateChannelReady>>
    /\ UNCHANGED <<system_tray, popupVars, pending, rendered, callVars, libVars, output,
                   activate_rx, sending, handler, activated, serial, last_event>>

(* output.send(ActivateChannelReady).await *)
CHandoff ==
    /\ listener = "handoff"
    /\ to_send # <<>>
    /\ Len(output) < ChannelCap
    /\ output' = Append(output, Head(to_send))
    /\ to_send' = Tail(to_send)
    /\ UNCHANGED <<system_tray, popupVars, pending, rendered, callVars, libVars, listener, owed,
                   activate_rx, sending, handler, activated, serial, last_event>>

(* let mut rx = client.subscribe() *)
CSubscribe ==
    /\ listener = "handoff"
    /\ to_send = <<>>
    /\ listener' = "subscribed"
    /\ rx' = <<>>
    /\ UNCHANGED <<system_tray, popupVars, pending, rendered, callVars, chanVars, sni_item,
                   tray_menu, files, ICON_CACHE, lib_call, threadVars, client_items,
                   items_guard, initial_items_data>>

(* items_guard.lock().unwrap() *)
CLock ==
    /\ listener = "subscribed"
    /\ items_guard = {}
    /\ items_guard' = {"listener"}
    /\ listener' = "locked"
    /\ initial_items_data' = <<>>
    /\ UNCHANGED <<system_tray, popupVars, pending, rendered, callVars, chanVars, sni_item,
                   tray_menu, files, ICON_CACHE, lib_call, threadVars, client_items, rx>>

Collected == {initial_items_data[n].address : n \in DOMAIN initial_items_data}

(* guard.iter().map(..): the closure runs for the entry the iteration meets
   next; it clones address and title, calls icon::resolve_icon(item) and
   menu::convert_menu(m) *)
CSnapshotEntry(a) ==
    /\ listener = "locked"
    /\ a \in DOMAIN client_items \ Collected
    /\ LET entry == client_items[a]
           resolved == resolve_icon(ICON_CACHE, files, entry.item.sni)
       IN  /\ lib_call' = [fn |-> "resolve_icon", outcome |-> resolved.outcome,
                           checks |-> resolved.checks, cache |-> resolved.cache # ICON_CACHE,
                           guard |-> items_guard]
           /\ ICON_CACHE' = resolved.cache
           /\ initial_items_data' =
                  Append(initial_items_data,
                         [address |-> a, title |-> entry.item.title,
                          icon_handle |-> icon_handle_of(resolved),
                          item_is_menu |-> entry.item.item_is_menu,
                          menu |-> {convert_menu(m) : m \in entry.menu}])
    /\ UNCHANGED <<hostVars, threadVars, sni_item, tray_menu, files, client_items, items_guard,
                   rx>>

(* .collect() is done and the block ends: the guard is dropped; the first loop
   has the entries to send *)
CUnlock ==
    /\ listener = "locked"
    /\ DOMAIN client_items = Collected
    /\ items_guard' = {}
    /\ listener' = "snapshot"
    /\ to_send' = initial_messages(initial_items_data)
    /\ owed' = owed \o initial_messages(initial_items_data)
    /\ UNCHANGED <<system_tray, popupVars, pending, rendered, callVars, output, activate_rx,
                   sending, handler, activated, serial, last_event, sni_item, tray_menu, files,
                   ICON_CACHE, lib_call, threadVars, client_items, rx, initial_items_data>>

(* rx.recv() returned the next event of the receiver: Event::Add resolves the
   icon and forwards ItemAdded, Event::Remove forwards ItemRemoved *)
CRecv ==
    /\ listener = "loop"
    /\ to_send = <<>>
    /\ rx # <<>>
    /\ rx' = Tail(rx)
    /\ last_event' = Head(rx)
    /\ LET event == Head(rx)
           resolved == resolve_icon(ICON_CACHE, files, event.item.sni)
           forwarded ==
               IF event.kind = "Add"
               THEN <<ItemAdded(event.address, event.item.title, icon_handle_of(resolved),
                                event.item.item_is_menu)>>
               ELSE event_messages(event)
       IN  /\ to_send' = forwarded
           /\ owed' = owed \o forwarded
           /\ IF event.kind = "Add"
              THEN /\ lib_call' = [fn |-> "resolve_icon", outcome |-> resolved.outcome,
                                   checks |-> resolved.checks,
                                   cache |-> resolved.cache # ICON_CACHE,
                                   guard |-> items_guard \cap {"listener"}]
                   /\ ICON_CACHE' = resolved.cache
              ELSE UNCHANGED <<lib_call, ICON_CACHE>>
    /\ UNCHANGED <<system_tray, popupVars, pending, rendered, callVars, listener, output,
                   activate_rx, sending, handler, activated, serial, sni_item, tray_menu, files,
                   threadVars, client_items, items_guard, initial_items_data>>

ClientNext ==
    \/ \E a \in Addresses, menu \in ClientMenus : ClientAdd(a, menu)
    \/ \E a \in Addresses : ClientRemove(a)
    \/ LConnectFailed
    \/ CConnect
    \/ CHandoff
    \/ CSubscribe
    \/ CLock
    \/ \E a \in Addresses : CSnapshotEntry(a)
    \/ CUnlock
    \/ LSend
    \/ LSpawn
    \/ CRecv
    \/ LRecvError
    \/ LDeliver

ClientSpec == Init /\ [][ClientNext]_vars

----------------------------------------------------------------------------
(* Properties of the SystemTray component (checked under Spec) *)

Items == system_tray.items
OpenMenu == system_tray.open_menu

\* every entry of the map but the one of address a is the same after the step
OthersUnchanged(a) ==
    /\ DOMAIN system_tray'.items \ {a} = DOMAIN Items \ {a}
    /\ \A b \in DOMAIN Items \ {a} : system_tray'.items[b] = Items[b]

\* C1: ItemUpdated for a known address overwrites only the fields the event
\* carries: a present title replaces the stored one, an absent title or icon
\* leaves the stored value, nothing else of the store changes; so an update with
\* title A followed by an update with no title leaves the title A.
C1_UpdateMerges ==
    [][\A a \in Addresses, t \in Titles, i \in Icons :
        (a \in DOMAIN Items /\ Apply(ItemUpdated(a, t, i))) =>
            /\ a \in DOMAIN system_tray'.items
            /\ t # None => system_tray'.items[a].title = t
            /\ t = None => system_tray'.items[a].title = Items[a].title
            /\ i # None => system_tray'.items[a].icon_handle = i
            /\ i = None => system_tray'.items[a].icon_handle = Items[a].icon_handle
            /\ system_tray'.items[a].menu_items = Items[a].menu_items
            /\ system_tray'.items[a].item_is_menu = Items[a].item_is_menu
            /\ OthersUnchanged(a)
            /\ system_tray'.open_menu = OpenMenu
            /\ (last = ItemUpdated(a, "A", None) /\ t = None) =>
                   system_tray'.items[a].title = "A"
      ]_vars

\* an update without a title was applied to an item whose title and icon are set
C1_Witness ==
    \E a \in Addresses :
        /\ last = ItemUpdated(a, None, None)
        /\ a \in DOMAIN Items
        /\ Items[a].title = "A"
        /\ Items[a].icon_handle = "icon"

\* C11: ItemAdded for an address already in the map replaces that entry: the map
\* then holds the event's title, icon and menu-only flag with an empty menu list
\* for the address, every other entry and the marker are as before, and the call
\* returns no task.
C11_AddOverwrites ==
    [][\A a \in Addresses, r \in Reported, m \in BOOLEAN :
        (a \in DOMAIN Items /\ Apply(ItemAdded(a, r[1], r[2], m))) =>
            /\ a \in DOMAIN system_tray'.items
            /\ system_tray'.items[a] =
                   [address |-> a, title |-> r[1], icon_handle |-> r[2],
                    menu_items |-> <<>>, item_is_menu |-> m]
            /\ OthersUnchanged(a)
            /\ system_tray'.open_menu = OpenMenu
            /\ system_tray'.custom_indicators = system_tray.custom_indicators
            /\ system_tray'.activate_tx = system_tray.activate_tx
            /\ last_task' = TaskNone
      ]_vars

\* an address the map already held was added again, while the other item and
\* the marker were there
C11_Witness ==
    \E a \in Addresses :
        /\ last.type = "ItemAdded"
        /\ last.address = a
        /\ a \in items_before
        /\ Items[a].title = None
        /\ Items[a].menu_items = <<>>
        /\ DOMAIN Items = Addresses
        /\ OpenMenu # None

\* C2: ItemRemoved(x) sets the marker to none when it names x and leaves it alone
\* when it names another address; a right-click on another address y applied
\* next sets the marker to y.
C2_RemoveClearsMarker ==
    [][/\ \A x \in Addresses :
            Apply(ItemRemoved(x)) =>
                /\ OpenMenu = Some(x) => system_tray'.open_menu = None
                /\ OpenMenu # Some(x) => system_tray'.open_menu = OpenMenu
       /\ \A x \in Addresses, y \in Addresses :
            (/\ y # x
             /\ last = ItemRemoved(x)
             /\ open_menu_before = Some(x)
             /\ Apply(ItemRightClicked(y))) => system_tray'.open_menu = Some(y)
      ]_vars

\* the open-menu target has just been removed while another item is still there
C2_Witness ==
    \E x \in Addresses :
        /\ last = ItemRemoved(x)
        /\ open_menu_before = Some(x)
        /\ OpenMenu = None
        /\ DOMAIN Items # {}

\* C6: a left-click applied to the store returns one send of a default
\* activation for the clicked address at (0,0), whether or not the item has a
\* menu or is menu-only, and changes no item, indicator or marker.
C6_LeftClickActivates ==
    [][\A a \in Addresses :
        Apply(ItemClicked(a)) =>
            /\ Len(last_task') = 1
            /\ last_task'[1].kind = "send"
            /\ last_task'[1].request = [kind |-> "Default", address |-> a, x |-> 0, y |-> 0]
            /\ system_tray'.items = Items
            /\ system_tray'.custom_indicators = system_tray.custom_indicators
            /\ system_tray'.open_menu = OpenMenu
      ]_vars

\* a left-click on an item that has a menu and is menu-only has been applied
C6_Witness ==
    \E a \in Addresses :
        /\ last = ItemClicked(a)
        /\ a \in DOMAIN Items
        /\ Items[a].menu_items # <<>>
        /\ Items[a].item_is_menu
        /\ Len(last_task) = 1

\* C7: a menu-item click sets the marker to none whatever it was and returns one
\* send of a menu-item activation with that address, "/MenuBar" and that id.
C7_MenuItemClickCloses ==
    [][\A a \in Addresses, id \in MenuIds :
        Apply(MenuItemClicked(a, id)) =>
            /\ system_tray'.open_menu = None
            /\ Len(last_task') = 1
            /\ last_task'[1].kind = "send"
            /\ last_task'[1].request =
                   [kind |-> "MenuItem", address |-> a, menu_path |-> "/MenuBar",
                    submenu_id |-> id]
      ]_vars

\* a menu-item click was applied while the marker named another address
C7_Witness ==
    \E a \in Addresses, id \in MenuIds :
        /\ last = MenuItemClicked(a, id)
        /\ open_menu_before \in Addresses \ {a}
        /\ OpenMenu = None
        /\ Len(last_task) = 1

\* C8: a right-click on a toggles the marker for a (a -> none, anything else ->
\* a), whatever hasMenu(a) is, and changes neither the items nor the indicators.
C8_RightClickToggles ==
    [][\A a \in Addresses :
        Apply(ItemRightClicked(a)) =>
            /\ OpenMenu = Some(a) => system_tray'.open_menu = None
            /\ OpenMenu # Some(a) => system_tray'.open_menu = Some(a)
            /\ system_tray'.items = Items
            /\ system_tray'.custom_indicators = system_tray.custom_indicators
      ]_vars

\* a right-click has replaced the marker of another address, on an item without menu
C8_Witness ==
    \E a \in Addresses :
        /\ last = ItemRightClicked(a)
        /\ open_menu_before \in Addresses \ {a}
        /\ OpenMenu = Some(a)
        /\ a \in DOMAIN Items
        /\ ~has_menu(system_tray, a)

\* C9: a left-click, right-click or menu-item click for an address that is not
\* in the map leaves the store as it is and returns no activation request.
C9_UnknownClickNoOp ==
    [][\A a \in Addresses :
        (/\ a \notin DOMAIN Items
         /\ \/ Apply(ItemClicked(a))
            \/ Apply(ItemRightClicked(a))
            \/ \E id \in MenuIds : Apply(MenuItemClicked(a, id))) =>
            /\ system_tray' = system_tray
            /\ Requests(last_task') = <<>>
      ]_vars

\* C10: ItemUpdated or MenuUpdated for an address that is not in the map leaves
\* the whole store as it is and returns no task.
C10_UnknownUpdateNoOp ==
    [][\A a \in Addresses :
        (/\ a \notin DOMAIN Items
         /\ \/ \E t \in Titles, i \in Icons : Apply(ItemUpdated(a, t, i))
            \/ \E items \in Menus : Apply(MenuUpdated(a, items))) =>
            /\ system_tray' = system_tray
            /\ last_task' = TaskNone
      ]_vars

\* a title update for an unknown address was dropped while the store held an
\* item and an open-menu marker
C10_Witness ==
    \E a \in Addresses :
        /\ last = ItemUpdated(a, "A", None)
        /\ a \notin DOMAIN Items
        /\ DOMAIN Items # {}
        /\ OpenMenu # None

\* C33: in every reachable store state the open-menu marker is none or names an
\* address that is in the item map.
C33_MarkerNamesAnItem ==
    system_tray.open_menu # None =>
        \E a \in DOMAIN system_tray.items : system_tray.open_menu = Some(a)

----------------------------------------------------------------------------
(* Properties of the StatusBar application (checked under AppSpec, AppFairSpec) *)

\* the popups that were opened for address a
PopupsOf(a) == {id \in DOMAIN menu_data : menu_data[id][1] = a}

\* C3: when ItemRemoved(a) is applied, every popup opened for a is dropped:
\* afterwards no entry of windows, menu_data or popup_animations is left for it.
C3_RemovalDropsPopups ==
    [][\A a \in AppAddresses :
        StatusBar_update_SystemTray(ItemRemoved(a)) =>
            \A id \in PopupsOf(a) :
                /\ id \notin DOMAIN windows'
                /\ id \notin DOMAIN menu_data'
                /\ id \notin DOMAIN popup_animations'
      ]_vars

\* C4: a left-click on an item for which has_menu is true (non-empty menu or
\* menu-only) does not reach the store: it returns the menu-open message for the
\* item and no activation request, and leaves the store as it is.
C4_MenuClickIntercepted ==
    [][\A a \in AppAddresses :
        (/\ has_menu(system_tray, a)
         /\ StatusBar_update_SystemTray(ItemClicked(a))) =>
            /\ last_task' = TaskDone(OpenTrayMenu(a, Items[a].menu_items))
            /\ Requests(last_task') = <<>>
            /\ system_tray' = system_tray
      ]_vars

\* C5: once an item has a non-empty menu, a right-click on it leads to a popup
\* for it whose rows are its menu entries; a click on an enabled row with id i
\* returns exactly one send of MenuItem{address, "/MenuBar", i}, and once the
\* close message that click produced has been applied the popup is gone.
C5_RightClickOpensMenu ==
    /\ \A a \in AppAddresses, items \in AppMenus \ {<<>>} :
           (/\ last = SystemTrayMessage(ItemRightClicked(a))
            /\ a \in DOMAIN Items
            /\ Items[a].menu_items = items)
               ~> (\E id \in PopupsOf(a) : menu_data[id] = <<a, items>>)
    /\ [][\A id \in DOMAIN menu_data, a \in AppAddresses,
            i \in {FullMenu[k].id : k \in DOMAIN FullMenu} :
            StatusBar_update_PopupMenuItemClicked(id, a, i) =>
                /\ Len(Requests(last_task')) = 1
                /\ Requests(last_task')[1].request =
                       [kind |-> "MenuItem", address |-> a, menu_path |-> "/MenuBar",
                        submenu_id |-> i]
                /\ BagIn(ClosePopup(id), pending')
         ]_vars
    /\ [][\A id \in DOMAIN menu_data :
            StatusBar_update_ClosePopup(id) =>
                /\ id \notin DOMAIN windows'
                /\ id \notin DOMAIN menu_data'
                /\ id \notin DOMAIN popup_animations'
         ]_vars

\* C14: a popup keeps the address and the menu list it was opened with:
\* MenuUpdated, ItemUpdated and ItemAdded for its address change the store (the
\* menu the store holds becomes the new list, or the empty list on ItemAdded)
\* and leave the popup's rows, window type and animation state as they are.
C14_PopupKeepsSnapshot ==
    [][\A a \in AppAddresses :
        PopupsOf(a) # {} =>
            /\ \A items \in AppMenus :
                   StatusBar_update_SystemTray(MenuUpdated(a, items)) =>
                       /\ <<windows, menu_data, popup_animations>>' =
                              <<windows, menu_data, popup_animations>>
                       /\ a \in DOMAIN Items => system_tray'.items[a].menu_items = items
            /\ \A m \in BOOLEAN :
                   StatusBar_update_SystemTray(ItemAdded(a, None, None, m)) =>
                       /\ <<windows, menu_data, popup_animations>>' =
                              <<windows, menu_data, popup_animations>>
                       /\ system_tray'.items[a].menu_items = <<>>
            /\ \A t \in Titles :
                   StatusBar_update_SystemTray(ItemUpdated(a, t, None)) =>
                       <<windows, menu_data, popup_animations>>' =
                           <<windows, menu_data, popup_animations>>
      ]_vars

\* the menu of an address was replaced in the store while a popup opened for
\* that address shows the rows it was opened with
C14_Witness ==
    \E a \in AppAddresses, id \in DOMAIN menu_data :
        /\ last.type = "SystemTray"
        /\ last.msg = MenuUpdated(a, <<>>)
        /\ a \in DOMAIN Items
        /\ Items[a].menu_items = <<>>
        /\ menu_data[id] = <<a, FullMenu>>
        /\ id \in windows_before

C37_PopupMapsAgree ==
    /\ DOMAIN menu_data = DOMAIN popup_animations
    /\ DOMAIN menu_data = {id \in DOMAIN windows : windows[id] = "TrayMenu"}

\* one popup was closed while another stays open
C37_Witness ==
    /\ last.type = "ClosePopup"
    /\ last.id \in windows_before
    /\ last.id \notin DOMAIN windows
    /\ DOMAIN windows # {}
    /\ DOMAIN menu_data # {}

----------------------------------------------------------------------------
(* Properties of run_tray_client and its channels (checked under ListenerSpec,
   ListenerFairSpec) *)

\* the messages on their way to update, in the order update will see them
OnTheWay == output \o to_send

ItemMessages == {"ItemAdded", "MenuUpdated", "ItemUpdated", "ItemRemoved"}

\* C17: the listener hands over the sender of the activation channel before it
\* sends any ItemAdded, MenuUpdated, ItemUpdated or ItemRemoved: update never
\* handles one of these while the store has no sender, so whenever the item map
\* is non-empty the store holds the sender.
C17_HandoffFirst ==
    /\ [](/\ DOMAIN Items # {} => system_tray.activate_tx # None
          /\ (system_tray.activate_tx = None /\ OnTheWay # <<>>) =>
                 Head(OnTheWay) = ActivateChannelReady)
    /\ [][(LDeliver /\ Head(output).type \in ItemMessages) =>
              system_tray.activate_tx # None]_vars

\* an item of the snapshot is in the map while the listener is still sending
\* the snapshot
C17_Witness ==
    /\ listener = "snapshot"
    /\ to_send # <<>>
    /\ DOMAIN Items # {}
    /\ system_tray.activate_tx # None

C19_FailureKeepsDraining ==
    /\ [][LActivate(FALSE) =>
              /\ handler' = "running"
              /\ UNCHANGED <<system_tray, popupVars, pending, output, to_send, sending,
                             callVars>>
         ]_vars
    /\ [](handler # "stopped")
    /\ []<>(activate_rx = <<>> \/ handler = "unspawned")

\* a request was passed to activate after an earlier call had failed
C19_Witness ==
    \E k \in DOMAIN activated :
        /\ ~activated[k].ok
        /\ k < Len(activated)

\* the store message run_tray_client owes for an event it took in
Expected(e) ==
    IF "kind" \in DOMAIN e
    THEN IF e.kind = "Add" THEN ItemAdded(e.address, e.title, None, e.item_is_menu)
         ELSE IF e.kind = "Remove" THEN ItemRemoved(e.address)
         ELSE IF e.update = "Menu" THEN MenuUpdated(e.address, e.menu)
         ELSE ItemUpdated(e.address, e.title, None)
    ELSE e

PlacesOf(seq, type, a) ==
    {i \in DOMAIN seq : seq[i].type = type /\ seq[i].address = a}

\* C21: for every entry of the snapshot the listener sends exactly one ItemAdded
\* and, when the entry has a menu, exactly one MenuUpdated for the same address
\* with that menu, placed after the ItemAdded; a MenuUpdated of the snapshot
\* finds its item in the map when update handles it and is stored.
C21_SnapshotItemThenMenu ==
    /\ [][\A snapshot \in Snapshots : LConnect(snapshot) =>
              \A k \in DOMAIN snapshot :
                  LET e == snapshot[k]
                      added == PlacesOf(to_send', "ItemAdded", e.address)
                      menus == PlacesOf(to_send', "MenuUpdated", e.address)
                  IN  /\ Cardinality(added) = 1
                      /\ Cardinality(menus) = IF e.menu # {} THEN 1 ELSE 0
                      /\ \A i \in added, j \in menus :
                             /\ i < j
                             /\ to_send'[j].menu_items \in e.menu
         ]_vars
    /\ [][(LDeliver /\ "kind" \notin DOMAIN Head(owed)
                    /\ Head(output).type = "MenuUpdated") =>
              /\ Head(output).address \in DOMAIN Items
              /\ system_tray'.items[Head(output).address].menu_items =
                     Head(output).menu_items
         ]_vars

\* the menu of a snapshot entry is stored while the listener has not yet
\* entered the event loop
C21_Witness ==
    /\ listener = "snapshot"
    /\ last.type = "MenuUpdated"
    /\ \E a \in DOMAIN Items : Items[a].menu_items = QuitMenu /\ last.address = a

\* C22: a listener that could not connect sends nothing, not even
\* ActivateChannelReady; a listener whose rx.recv() failed takes no further
\* event and sends no further message; in both cases it stays parked for good,
\* and the step that parks it changes nothing of the store or the popups.
C22_FailuresPark ==
    /\ [](listener = "parked" /\ handler = "unspawned" =>
              /\ output = <<>> /\ to_send = <<>> /\ owed = <<>>
              /\ system_tray = SystemTrayDefault
              /\ activate_rx = <<>> /\ activated = <<>>)
    /\ [](listener = "parked" => to_send = <<>>)
    /\ [][listener = "parked" =>
              /\ listener' = "parked"
              /\ owed' = owed \/ (owed # <<>> /\ owed' = Tail(owed))
              /\ output' = output \/ (output # <<>> /\ output' = Tail(output))
         ]_vars
    /\ [][(LConnectFailed \/ LRecvError) =>
              /\ listener' = "parked"
              /\ UNCHANGED <<system_tray, popupVars, pending, output, to_send, owed>>
         ]_vars

\* the listener is parked after a receive error; what it had forwarded before
\* has been handled and the item is still in the map
C22_Witness ==
    /\ listener = "parked"
    /\ handler = "running"
    /\ output = <<>>
    /\ DOMAIN Items # {}
    /\ last.type = "ItemUpdated"

IsOtherUpdate(event) == event.kind = "Update" /\ event.update = "Other"

\* C23: an Update that is neither a menu nor a title update is taken in without
\* any message being sent, so the store is not touched by it; the ItemUpdated
\* of a title update carries no icon, and the step that handles it leaves the
\* icon and the menu of every stored item as they were.
C23_IgnoredUpdates ==
    /\ [][\A a \in AppAddresses : LRecv(EventUpdateOther(a)) =>
              /\ to_send' = <<>>
              /\ UNCHANGED <<system_tray, output, owed>>
         ]_vars
    /\ [](IsOtherUpdate(last_event) => to_send = <<>>)
    /\ [][(LDeliver /\ Head(output).type = "ItemUpdated") =>
              /\ Head(output).icon_handle = None
              /\ DOMAIN Items' = DOMAIN Items
              /\ \A a \in DOMAIN Items :
                     /\ Items'[a].icon_handle = Items[a].icon_handle
                     /\ Items'[a].menu_items = Items[a].menu_items
         ]_vars

\* an item with an icon and a menu took a title update and kept both; the
\* listener then received an update of another kind
C23_Witness ==
    /\ IsOtherUpdate(last_event)
    /\ last.type = "ItemUpdated"
    /\ \E a \in DOMAIN Items :
           /\ Items[a].title = "A"
           /\ Items[a].icon_handle = "icon"
           /\ Items[a].menu_items = QuitMenu

----------------------------------------------------------------------------
(* Properties of icon.rs (checked under IconSpec) *)

\* the pixmaps of the item, the empty list when it has none
Pixmaps == IF sni_item.icon_pixmap = {} THEN <<>>
           ELSE CHOOSE pixmaps \in sni_item.icon_pixmap : TRUE

Positive == {n \in DOMAIN Pixmaps : Pixmaps[n].width > 0 /\ Pixmaps[n].height > 0}
Usable == {n \in Positive : Len(Pixmaps[n].pixels) > 0}

Distance(n) == Abs(Pixmaps[n].width - ICON_SIZE)

\* the first of the pixmaps of set S that are closest to ICON_SIZE
Closest(S) ==
    CHOOSE n \in S : \A k \in S : Distance(n) < Distance(k) \/ (Distance(n) = Distance(k) /\ n <= k)

Widths == [n \in DOMAIN Pixmaps |-> Pixmaps[n].width]

\* C24: the image pixmap_to_handle returns is made of the pixmap that, among
\* those with positive width and height, is closest in width to 22, the first
\* of them in input order when several are equally close: widths
\* [16, 20, 24, 48] and [20, 24] give the one of width 20, [24, 20] the one of
\* width 24.
C24_ClosestFirstWins ==
    lib_call.fn = "pixmap_to_handle" =>
        /\ (~lib_call.outcome.panic /\ lib_call.outcome.value # {}) =>
               \E handle \in lib_call.outcome.value :
                   /\ Positive # {}
                   /\ handle.width = Pixmaps[Closest(Positive)].width
                   /\ handle.height = Pixmaps[Closest(Positive)].height
        /\ Widths \in {<<16, 20, 24, 48>>, <<20, 24>>} =>
               \E handle \in lib_call.outcome.value : handle.width = 20
        /\ Widths = <<24, 20>> =>
               \E handle \in lib_call.outcome.value : handle.width = 24

\* of two pixmaps equally close to 22 the first one, of width 24, was taken
C24_Witness ==
    /\ lib_call.fn = "pixmap_to_handle"
    /\ Widths = <<24, 20>>
    /\ \E handle \in lib_call.outcome.value : handle.width = 24

\* C25: a pixmap with empty pixel data is no candidate: whenever some pixmap has
\* positive width and height and non-empty pixels, a call of pixmap_to_handle
\* that returns gives an image, made of the closest of these pixmaps.
C25_EmptyPixelsRejected ==
    (lib_call.fn = "pixmap_to_handle" /\ Usable # {} /\ ~lib_call.outcome.panic) =>
        /\ lib_call.outcome.value # {}
        /\ \E handle \in lib_call.outcome.value :
               handle.width = Pixmaps[Closest(Usable)].width

\* C26: argb32_to_rgba never fails: of a source of at least width*height*4
\* bytes every pixel [A, R, G, B] comes out as [R, G, B, A] at its place; for a
\* shorter source the result is width*height*4 zero bytes.
C26_ConversionTotal ==
    lib_call.fn = "argb32_to_rgba" =>
        LET expected_len == lib_call.width * lib_call.height * 4
            argb == lib_call.argb
            rgba == lib_call.outcome.value
        IN  /\ ~lib_call.outcome.panic
            /\ Len(argb) >= expected_len =>
                   \A pixel \in 0..(lib_call.width * lib_call.height - 1) :
                       /\ Len(rgba) >= 4 * pixel + 4
                       /\ rgba[4 * pixel + 1] = argb[4 * pixel + 2]
                       /\ rgba[4 * pixel + 2] = argb[4 * pixel + 3]
                       /\ rgba[4 * pixel + 3] = argb[4 * pixel + 4]
                       /\ rgba[4 * pixel + 4] = argb[4 * pixel + 1]
            /\ Len(argb) < expected_len =>
                   /\ Len(rgba) = expected_len
                   /\ \A i \in DOMAIN rgba : rgba[i] = 0

Named == sni_item.icon_name # {} /\ sni_item.icon_name # {""}
Themed == sni_item.icon_theme_path # {} /\ sni_item.icon_theme_path # {""}

\* C27: a call of resolve_icon that returns gives the image of a pixmap
\* whenever the item has a usable one, whatever its icon name and theme path;
\* otherwise it gives a file found under the theme path, and only when the item
\* has a non-empty icon name and a non-empty theme path; in every other case it
\* gives none.
C27_ResolvePriority ==
    (lib_call.fn = "resolve_icon" /\ ~lib_call.outcome.panic) =>
        /\ Usable # {} =>
               \E handle \in lib_call.outcome.value :
                   /\ handle.kind = "rgba"
                   /\ handle.width = Pixmaps[Closest(Usable)].width
        /\ Usable = {} =>
               /\ \A handle \in lib_call.outcome.value :
                      /\ handle.kind = "path"
                      /\ Named /\ Themed
                      /\ {handle.path.dir} = sni_item.icon_theme_path
                      /\ {handle.path.name} = sni_item.icon_name
               /\ ~(Named /\ Themed) => lib_call.outcome.value = {}

CacheMap == IF ICON_CACHE = {} THEN EmptyMap ELSE CHOOSE map \in ICON_CACHE : TRUE

\* C28: what the cache holds for a key never changes, whatever happens on disk;
\* a call for a key the cache holds returns the recorded result without a
\* single existence check; a call for a key it does not hold records its
\* result, a found path as well as a miss.
C28_CacheIsSticky ==
    /\ [][\A key \in DOMAIN CacheMap :
              /\ ICON_CACHE' # {}
              /\ key \in DOMAIN CacheMap'
              /\ CacheMap'[key] = CacheMap[key]
         ]_vars
    /\ [][FindIconCached =>
              /\ lib_call'.key \in DOMAIN CacheMap'
              /\ CacheMap'[lib_call'.key] = lib_call'.result
              /\ lib_call'.key \in DOMAIN CacheMap =>
                     /\ lib_call'.result = CacheMap[lib_call'.key]
                     /\ lib_call'.checks = 0
              /\ lib_call'.key \notin DOMAIN CacheMap => lib_call'.checks > 0
         ]_vars

\* a lookup returned, without touching the disk, a path whose file had been
\* deleted after the first lookup
C28_Witness ==
    /\ lib_call.fn = "find_icon_in_path_cached"
    /\ lib_call.checks = 0
    /\ lib_call.result # {}
    /\ lib_call.result \cap lib_call.disk = {}

\* C39: whenever pixmap_to_handle yields an image, the RGBA buffer handed to the
\* image has exactly width*height*4 bytes for the declared width and height.
C39_BufferMatchesDimensions ==
    (lib_call.fn = "pixmap_to_handle" /\ ~lib_call.outcome.panic) =>
        \A handle \in lib_call.outcome.value :
            Len(handle.pixels) = handle.width * handle.height * 4

----------------------------------------------------------------------------
(* Properties of the icon cache under concurrent callers (checked under CacheSpec) *)

\* C34: the value recorded for a key never changes once recorded: a call that
\* returns gives the result of every call for its key that had returned before
\* it started.
C34_RecordedValueIsFinal ==
    \A t \in Threads :
        callers[t].pc = "returned" => \A r \in callers[t].seen : r = callers[t].result

ReadPositions == {"init_check", "lookup"}
WritePositions == {"init_store", "insert"}

\* C35: no filesystem probe is made by a thread that holds the cache's lock:
\* the read guard is held only for the two checks, the write guard only for
\* creating the empty map and for the insert of the finished result.
C35_NoProbeUnderLock ==
    /\ lib_call.fn = "find_icon_in_path" => ~lib_call.holding
    /\ \A t \in Threads :
          /\ t \in cache_lock.readers => callers[t].pc \in ReadPositions
          /\ t \in cache_lock.writer => callers[t].pc \in WritePositions
          /\ callers[t].pc \in {"probe", "store"} => ~Holds(t)

\* one thread has finished its probe and waits for the write lock while the
\* other holds it for its insert
C35_Witness ==
    \E t, u \in Threads :
        /\ callers[t].pc = "store"
        /\ lib_call = [fn |-> "find_icon_in_path", thread |-> t, holding |-> FALSE]
        /\ callers[u].pc = "insert"
        /\ cache_lock.writer = {u}

----------------------------------------------------------------------------
(* Properties of menu.rs (checked under MenuSpec) *)

\* label l without its i-th character
Without(l, i) == [k \in 1..(Len(l) - 1) |-> IF k < i THEN l[k] ELSE l[k + 1]]

Markers(l) == {i \in DOMAIN l : l[i] = "_"}

\* C29: convert_menu_item cleans every label: an absent label gives the empty
\* string, a label without '_' is unchanged, and a label with '_' comes out
\* with exactly one '_' removed and all else in place.
C29_OneMarkerStripped ==
    lib_call.fn = "convert_menu_item" =>
        LET out == lib_call.result.label
        IN  IF lib_call.item.label = {} THEN Len(out) = 0
            ELSE LET src == CHOOSE l \in lib_call.item.label : TRUE
                 IN  IF Markers(src) = {} THEN out = src
                     ELSE \E i \in Markers(src) : out = Without(src, i)

\* the converted items of a list with those of all their submenus
RECURSIVE Flatten(_)
Flatten(items) ==
    IF Len(items) = 0 THEN {}
    ELSE {Head(items)} \cup Flatten(Head(items).submenu) \cup Flatten(Tail(items))

\* C30: every item convert_menu flags as a separator has an empty label,
\* whatever the wire item carried, and its row in a popup has no on_press.
C30_SeparatorsBare ==
    lib_call.fn = "convert_menu" =>
        \A item \in Flatten(lib_call.result) :
            item.is_separator => (Len(item.label) = 0 /\ ~Clickable(item))

\* the children of a set of items (wire or converted)
Children(nodes) == UNION {{node.submenu[n] : n \in DOMAIN node.submenu} : node \in nodes}

\* the number of levels below and including a set of items
RECURSIVE Levels(_)
Levels(nodes) == IF nodes = {} THEN 0 ELSE 1 + Levels(Children(nodes))

Depth(items) == Levels({items[n] : n \in DOMAIN items})

\* C40: conversion stops at a recursion cap (CapLevels levels): the converted
\* tree has at most that many levels, children below the cap being dropped, and
\* a wire menu of at most that many levels is converted with all its levels.
C40_DepthCapped ==
    lib_call.fn = "convert_menu" =>
        /\ Depth(lib_call.result) <= CapLevels
        /\ Depth(tray_menu.submenus) <= CapLevels =>
               Depth(lib_call.result) = Depth(tray_menu.submenus)

----------------------------------------------------------------------------
(* Properties of run_tray_client with the protocol client (checked under ClientSpec) *)

\* C32: while the listener holds the client's item lock for the snapshot it
\* resolves no icon (no filesystem probe, no access to the icon cache) and has
\* no event to emit; icon resolution starts only once the lock is released.
C32_NoResolutionUnderItemLock ==
    /\ lib_call.fn = "resolve_icon" => "listener" \notin lib_call.guard
    /\ "listener" \in items_guard => (to_send = <<>> /\ listener = "locked")

\* the listener is in its event loop, its receiver is empty, and every message
\* it forwarded has been applied
Quiescent ==
    /\ listener = "loop"
    /\ rx = <<>>
    /\ to_send = <<>>
    /\ output = <<>>

----------------------------------------------------------------------------
(* Properties of the popup animation (checked under PopupSpec) *)

Progress(id) == popup_animations[id].progress

\* the steps in which update handles PopupAnimationTick
TickStep ==
    \E found \in {{}} \cup {{id} : id \in DOMAIN popup_animations} :
        StatusBar_update_PopupAnimationTick(found)

\* C12: one tick raises the progress of every popup that is below 1.0 by 0.15,
\* clamped to 1.0, and leaves the popups at 1.0 as they are; with two popups
\* below 1.0, one tick raises both.
C12_TickAdvancesAll ==
    [][TickStep =>
        /\ DOMAIN popup_animations' = DOMAIN popup_animations
        /\ \A id \in DOMAIN popup_animations :
               popup_animations'[id].progress =
                   IF Progress(id) < ProgressFull
                   THEN Min(Progress(id) + ProgressStep, ProgressFull)
                   ELSE Progress(id)
      ]_vars

\* C13: a popup is opened with progress 0.0; the progress stays within
\* [0.0, 1.0] and never decreases; for a popup that has been the only one open,
\* it is min(1.0, 0.15 * N) after N ticks, hence 1.0 from the 7th tick on.
C13_ProgressOfLonePopup ==
    /\ [](\A id \in DOMAIN popup_animations :
            /\ Progress(id) \in 0..ProgressFull
            /\ ticks[id] # Shared =>
                   /\ Progress(id) = Min(ProgressFull, ProgressStep * ticks[id])
                   /\ ticks[id] >= 7 => Progress(id) = ProgressFull)
    /\ [][/\ \A id \in DOMAIN popup_animations \cap DOMAIN popup_animations' :
                 popup_animations'[id].progress >= Progress(id)
          /\ \A id \in DOMAIN popup_animations' \ DOMAIN popup_animations :
                 popup_animations'[id].progress = 0
         ]_vars

\* a popup that was alone all the time has taken a tick beyond its 7th
C13_Witness ==
    \E id \in DOMAIN popup_animations :
        /\ ticks[id] = 8
        /\ Progress(id) = ProgressFull
        /\ last = PopupAnimationTick

\* C15: ClosePopup(id) removes the window type, the menu snapshot and the
\* animation state of id in one step and leaves every other popup as it is; a
\* ClosePopup for an id that is gone, and a tick that finds no popup to
\* advance, change no state and return no failure.
C15_CloseRemovesAll ==
    [][/\ \A id \in 1..MaxPopups :
            StatusBar_update_ClosePopup(id) =>
                /\ windows' = Remove(windows, id)
                /\ menu_data' = Remove(menu_data, id)
                /\ popup_animations' = Remove(popup_animations, id)
                /\ system_tray' = system_tray
                /\ last_task' = TaskDone(RemoveWindow(id))
                /\ id \notin DOMAIN windows =>
                       <<windows, menu_data, popup_animations>>' =
                           <<windows, menu_data, popup_animations>>
       /\ TickStep =>
                /\ windows' = windows
                /\ menu_data' = menu_data
                /\ system_tray' = system_tray
                /\ DOMAIN popup_animations' = DOMAIN popup_animations
                /\ last_task' = TaskNone
                /\ Animating(StatusBar) = {} => popup_animations' = popup_animations
      ]_vars

\* a second ClosePopup for the same id was handled after the popup was gone,
\* while another popup stayed open
C15_Witness ==
    \E id \in 1..MaxPopups :
        /\ last = ClosePopup(id)
        /\ id \notin windows_before
        /\ windows_before # {}
        /\ DOMAIN windows = windows_before
        /\ DOMAIN menu_data = windows_before
        /\ DOMAIN popup_animations = windows_before

\* the ticks of the timer that are queued for update
QueuedTicks == CopiesIn(PopupAnimationTick, pending)

(* C36: under fair delivery of ticks every popup that is not closed reaches
   progress 1.0, also with several popups open: again and again no popup is
   below 1.0 (ids are not reused and progress never falls, so a popup present
   now is by then closed or at 1.0). The timer produces a tick only in states
   where some popup is below 1.0, so none is produced once all are at 1.0. *)
C36_EveryPopupFinishes ==
    /\ []<>(Animating(StatusBar) = {})
    /\ [][QueuedTicks' > QueuedTicks => Animating(StatusBar) # {}]_vars

\* two popups are open, both at 1.0, and the tick that finished the second was
\* the last message handled
C36_Witness ==
    /\ Cardinality(DOMAIN popup_animations) >= 2
    /\ \A id \in DOMAIN popup_animations : Progress(id) = ProgressFull
    /\ last = PopupAnimationTick
    /\ QueuedTicks = 0

====
